---- MODULE Spec2Model ----
(***************************************************************************)
(* State-machine model of tctl's dependency resolver ("tctl get"):         *)
(* ensureData walks the requires/provides graph of a tool Registry and the  *)
(* configured intents with one shared visited-set, consults the freshness   *)
(* evaluator for tools that declare an output, and runs stale tools through *)
(* the runner package.                                                      *)
(***************************************************************************)
EXTENDS Integers, Sequences, FiniteSets, TLC

VARIABLES registry, intents, visited, stack, trace, calls, success, callsLeft,
          roots, walk, added, lookup,
          descriptor, source, scanned,
          outFile, policy, verdict,
          sources, saved, outcome

\* the resolver's own state (the registry is shared with the scanner)
resolverVars == <<intents, visited, stack, trace, calls, success, callsLeft>>

\* the directory scan and the calls on its Registry
scanVars == <<roots, walk, added, lookup>>

\* the scan of one source file
parseVars == <<descriptor, source, scanned>>

\* the freshness check of one output file
freshVars == <<outFile, policy, verdict>>

\* the source list of the global configuration, in memory and on disk
sourceVars == <<sources, saved, outcome>>

\* what the resolver leaves alone
libVars == <<scanVars, parseVars, freshVars, sourceVars>>

vars == <<registry, resolverVars, scanVars, parseVars, freshVars, sourceVars>>

-----------------------------------------------------------------------------
(* Bounds of the model.                                                    *)

\* longest requires list of the widest tool
MaxReq == 2
\* deepest chain of nested ensureData frames the model follows
MaxDepth == 7
\* top-level ensureData calls that share one visited-set in SeqSpec
MaxCalls == 2
\* longest list of source roots handed to ScanDirectories
MaxRoots == 2
\* calls of Registry.Add a caller makes on the registry it holds
MaxAdds == 2

-----------------------------------------------------------------------------
(* Durations.  time.Duration is an int64 of nanoseconds; the model keeps    *)
(* whole hours and the seconds left over, and compares them as a pair.      *)

Dur(h, s) == [h |-> h, s |-> s]

\* less than or equal
DurLess_orEqual(a, b) == \/ a.h < b.h
                         \/ a.h = b.h /\ a.s <= b.s

DurLess(a, b) == \/ a.h < b.h
                 \/ a.h = b.h /\ a.s < b.s

Hours(n) == Dur(n, 0)

Thresholds ==
  [ daily   |-> Hours(24),
    weekly  |-> Hours(7 * 24),
    monthly |-> Hours(30 * 24),
    manual  |-> Hours(365 * 24 * 100) ]

PolicyNames == {"daily", "weekly", "monthly", "manual"}

\* an unknown policy falls back to daily
MaxAge_dailyFallback(freshnessPolicy) ==
  IF freshnessPolicy \in PolicyNames
    THEN Thresholds[freshnessPolicy]
    ELSE Thresholds["daily"]

MaxAge(freshnessPolicy) ==
  IF freshnessPolicy \in PolicyNames
    THEN Thresholds[freshnessPolicy]
    ELSE Thresholds["manual"]

\* an age with the nanoseconds beyond its whole seconds
DurNs(h, s, ns) == [h |-> h, s |-> s, ns |-> ns]

Nanos(age) == IF "ns" \in DOMAIN age THEN age.ns ELSE 0

\* time.Duration.Hours adds the whole hours and the rest as float64 numbers:
\* from 4096 hours on the sum of h and a rest this many nanoseconds or less
\* short of an hour rounds to h + 1 (the float64 spacing doubles with each
\* power of two)
RoundGap(h) ==
  IF h < 4096 THEN 0 ELSE IF h < 8192 THEN 1 ELSE IF h < 16384 THEN 3
  ELSE IF h < 32768 THEN 6 ELSE IF h < 65536 THEN 13 ELSE IF h < 131072 THEN 26
  ELSE IF h < 262144 THEN 52 ELSE IF h < 524288 THEN 104
  ELSE IF h < 1048576 THEN 209 ELSE IF h < 2097152 THEN 419 ELSE 838

\* line 50: int(age.Hours())
IntHours(age) ==
  IF age.s = 3599 /\ 1000000000 - Nanos(age) <= RoundGap(age.h)
    THEN age.h + 1 ELSE age.h

formatAge(age, prefix) ==
  LET hours == IntHours(age)
      days  == hours \div 24
  IN IF days = 0
       THEN IF hours = 0
              THEN [word |-> prefix, n |-> (age.h * 60) + (age.s \div 60), unit |-> "m"]
              ELSE [word |-> prefix, n |-> hours, unit |-> "h"]
       ELSE [word |-> prefix, n |-> days, unit |-> "d"]

\* what os.Stat can answer for the output path
StatMissing == [kind |-> "missing", age |-> Dur(0, 0)]
StatError   == [kind |-> "error", age |-> Dur(0, 0)]
StatFile(age) == [kind |-> "file", age |-> age]

Check(st, freshnessPolicy) ==
  IF st.kind = "missing"
    THEN [fresh |-> FALSE, msg |-> [word |-> "missing", n |-> 0, unit |-> ""]]
  ELSE IF st.kind = "error"
    THEN [fresh |-> FALSE, msg |-> [word |-> "error", n |-> 0, unit |-> ""]]
  ELSE IF DurLess(st.age, MaxAge(freshnessPolicy))
    THEN [fresh |-> TRUE, msg |-> formatAge(st.age, "fresh")]
    ELSE [fresh |-> FALSE, msg |-> formatAge(st.age, "stale")]

-----------------------------------------------------------------------------
(* The runner package.                                                     *)

\* a file path is kept as <<stem, extension>>; filepath.Ext is the second part
Ext(file) == file[2]

CanRun(t) == t.Language = "python" \/ Ext(t.File) = ".py"

\* the runners registered at start-up: PythonRunner only
GetRunner(t) == IF CanRun(t) THEN "python" ELSE "nil"

\* what the interpreter subprocess can answer: (exit code, error)
ExecOutcomes ==
  { [code |-> 0, err |-> "none"],
    [code |-> 2, err |-> "none"],
    [code |-> 1, err |-> "python interpreter not found"] }

Run(t) ==
  IF GetRunner(t) = "nil"
    THEN { [code |-> 1, err |-> "unsupported language"] }
    ELSE ExecOutcomes

-----------------------------------------------------------------------------
(* Registry (pkg/tool) and intents (internal/config).                      *)

Tool(name, file, lang, provides, requires, output, freshness) ==
  [ Name |-> name, File |-> file, Language |-> lang, Provides |-> provides,
    Requires |-> requires, Output |-> output, Freshness |-> freshness ]

InSeq(e, sq) == \E k \in 1..Len(sq) : sq[k] = e

\* the comparison with the asked name is dropped
FindByProvides_anyTool(reg, data) ==
  { n \in DOMAIN reg : reg[n].Provides # <<>> }

\* Registry.FindByProvides ranges over a Go map, whose iteration order is
\* not fixed: any tool whose provides list holds the name can be the answer.
\* The empty set stands for nil.
FindByProvides(reg, data) ==
  { n \in DOMAIN reg : InSeq(data, reg[n].Provides) }

\* a name that a registered tool provides is not taken for an intent
GetIntent_unlessProvided(its, name) ==
  /\ name \in DOMAIN its
  /\ \A n \in DOMAIN registry : ~InSeq(name, registry[n].Provides)

GetIntent(its, name) == name \in DOMAIN its

BoundedSeq(S, n) == UNION { [1..k -> S] : k \in 0..n }

\* the registries the resolver is run on
ToolsA ==
  { Tool("a", <<"tools/a", ".py">>, "python", p, r, o, "daily") :
      p \in { <<"x">>, <<"x", "y">> },
      r \in BoundedSeq({"y", "z"}, MaxReq),
      o \in { "", "out/a.csv" } }

ToolsB ==
  { Tool("b", <<"tools/b", ".py">>, "python", <<"y">>, ro[1], ro[2], ro[3]) :
      ro \in { << <<>>, "out.csv", "daily" >>,
               << <<"z">>, "", "manual" >>,
               << <<"x">>, "", "manual" >>,
               << <<"z">>, "out.csv", "manual" >> } }

ToolsC ==
  { Tool("c", fl[1], fl[2], <<"z">>, fl[3], fl[4], "weekly") :
      fl \in { << <<"tools/c", ".py">>, "python", <<>>, "" >>,
               << <<"tools/c", ".py">>, "python", <<"i">>, "/data/c.json" >>,
               << <<"bin/c", ".rb">>, "ruby", <<>>, "" >> } }

Registries ==
  { [ n \in {"a", "b", "c"} |-> IF n = "a" THEN ta ELSE IF n = "b" THEN tb ELSE tc ] :
      ta \in ToolsA, tb \in ToolsB, tc \in ToolsC }

\* the registries the repeated outermost calls are run on: every variant of
\* tool a over one chain b -> c
SeqRegistries ==
  { r \in Registries :
      /\ r["b"].Requires = <<"z">> /\ r["b"].Output = ""
      /\ r["c"].Requires = <<>> /\ r["c"].Language = "python" }

IntentMaps ==
  { [ n \in {} |-> <<>> ],
    [ n \in {"i"} |-> <<"x", "y", "z">> ],
    [ n \in {"i"} |-> <<"x", "u">> ],
    [ n \in {"x"} |-> <<"z">> ] }

Targets == {"x", "y", "z", "i", "u"}

\* what os.Stat answers for an output path when the resolver looks at it
StatOutcomes ==
  { StatMissing, StatFile(Dur(1, 0)), StatFile(Dur(48, 0)) }

-----------------------------------------------------------------------------
(* Strings of the scanner packages.  A Go string is kept as the sequence   *)
(* of its characters, the empty sequence being "", so that the prefix,     *)
(* trimming and splitting calls of the parser work on the text itself.  A  *)
(* text of several lines is kept as the sequence of its lines              *)
(* (strings.Split(s, "\n") and strings.Join(lines, "\n")).                 *)

Spaces == {" ", "\t"}

\* \w of the regexp package
WordChars ==
  { "a", "b", "c", "d", "e", "f", "g", "h", "i", "j", "k", "l", "m",
    "n", "o", "p", "q", "r", "s", "t", "u", "v", "w", "x", "y", "z",
    "A", "B", "C", "D", "E", "F", "G", "H", "I", "J", "K", "L", "M",
    "N", "O", "P", "Q", "R", "S", "T", "U", "V", "W", "X", "Y", "Z",
    "0", "1", "2", "3", "4", "5", "6", "7", "8", "9", "_" }

\* the member of a set of one value; in The({ F(v) : v \in {e} }) the value of
\* e is computed once and F works on the value
The(S) == CHOOSE v \in S : TRUE

SetMin(S) == CHOOSE m \in S : \A x \in S : m <= x

SetMax(S) == CHOOSE m \in S : \A x \in S : x <= m

\* strings.TrimSpace
TrimSpace(s) ==
  The({ IF keep = {} THEN <<>> ELSE SubSeq(s, SetMin(keep), SetMax(keep)) :
          keep \in { { k \in 1..Len(s) : s[k] \notin Spaces } } })

\* strings.HasPrefix
HasPrefix(s, p) == Len(p) <= Len(s) /\ SubSeq(s, 1, Len(p)) = p

\* strings.HasSuffix
HasSuffix(s, p) == Len(p) <= Len(s) /\ SubSeq(s, Len(s) - Len(p) + 1, Len(s)) = p

\* the slice s[n:]
From(s, n) == SubSeq(s, n + 1, Len(s))

\* strings.Index: the offset of the first occurrence of p in s, -1 without one
Index(s, p) ==
  LET at == { k \in 0..(Len(s) - Len(p)) : SubSeq(s, k + 1, k + Len(p)) = p }
  IN IF at = {} THEN -1 ELSE SetMin(at)

\* strings.Contains
Contains(s, p) == Index(s, p) # -1

\* strings.TrimSuffix
TrimSuffix(s, p) == IF HasSuffix(s, p) THEN SubSeq(s, 1, Len(s) - Len(p)) ELSE s

\* strings.TrimPrefix
TrimPrefix(s, p) == IF HasPrefix(s, p) THEN From(s, Len(p)) ELSE s

\* the maximal runs of s without a character of seps, in order
RECURSIVE Tokens(_, _)
Tokens(s, seps) ==
  IF s = <<>> THEN <<>>
  ELSE IF s[1] \in seps THEN The({ Tokens(r, seps) : r \in { Tail(s) } })
  ELSE LET stops == { k \in 1..Len(s) : s[k] \in seps }
           n     == IF stops = {} THEN Len(s) ELSE SetMin(stops) - 1
       IN The({ <<SubSeq(s, 1, n)>> \o Tokens(r, seps) : r \in { From(s, n) } })

\* strings.Fields
Fields(s) == The({ Tokens(v, Spaces) : v \in {s} })

\* strings.Split(s, sep) for a separator of one character: empty pieces stay
RECURSIVE Split(_, _)
Split(s, sep) ==
  LET k == Index(s, <<sep>>)
  IN IF k = -1 THEN <<s>>
     ELSE The({ <<SubSeq(s, 1, k)>> \o Split(r, sep) : r \in { From(s, k + 1) } })

\* strings.Join(parts, sep)
RECURSIVE Join(_, _)
Join(parts, sep) ==
  IF parts = <<>> THEN <<>>
  ELSE IF Len(parts) = 1 THEN parts[1]
  ELSE parts[1] \o sep \o Join(Tail(parts), sep)

\* a text of several lines is "" iff it has no line or one empty line
IsEmptyText(lines) == lines = <<>> \/ lines = << <<>> >>

-----------------------------------------------------------------------------
(* The Python scanner: docstring extraction and the tag parser.            *)

\* a nil *tool.Tool and a nil *tool.Arg
NilTool == [ nil |-> TRUE ]

NilArg == [ nil |-> TRUE ]

Quote3 == << "\"", "\"", "\"" >>

Apos3 == << "'", "'", "'" >>

TagTool == << "@", "t", "o", "o", "l", " " >>

TagVersion == << "@", "v", "e", "r", "s", "i", "o", "n", " " >>

TagProvides == << "@", "p", "r", "o", "v", "i", "d", "e", "s", " " >>

TagRequires == << "@", "r", "e", "q", "u", "i", "r", "e", "s", " " >>

TagOutput == << "@", "o", "u", "t", "p", "u", "t", " " >>

TagFreshness == << "@", "f", "r", "e", "s", "h", "n", "e", "s", "s", " " >>

TagCapability == << "@", "c", "a", "p", "a", "b", "i", "l", "i", "t", "y", " " >>

TagBoundary == << "@", "b", "o", "u", "n", "d", "a", "r", "y", " " >>

TagKeywords == << "@", "k", "e", "y", "w", "o", "r", "d", "s", " " >>

TagInterface == << "@", "i", "n", "t", "e", "r", "f", "a", "c", "e" >>

TagExample == << "@", "e", "x", "a", "m", "p", "l", "e", " " >>

StrManual == << "m", "a", "n", "u", "a", "l" >>

StrPython == << "p", "y", "t", "h", "o", "n" >>

StrString == << "s", "t", "r", "i", "n", "g" >>

StrRequired == << "r", "e", "q", "u", "i", "r", "e", "d" >>

StrDefault == << "d", "e", "f", "a", "u", "l", "t", "=" >>

\* lines 332-335: the descriptor the parser starts from
NewTool ==
  [ Name |-> <<>>, Version |-> <<>>, File |-> <<>>, Language |-> <<>>,
    Description |-> <<>>, Provides |-> <<>>, Requires |-> <<>>, Output |-> <<>>,
    Freshness |-> StrManual, Capabilities |-> <<>>, Boundaries |-> <<>>,
    Keywords |-> <<>>, Interface |-> <<>>, Examples |-> <<>> ]

Arg(name, type, required, default, description) ==
  [ Name |-> name, Type |-> type, Required |-> required, Default |-> default,
    Description |-> description ]

\* the leading white space that \s* of the pattern takes
TrimLeft(s) ==
  LET keep == { k \in 1..Len(s) : s[k] \notin Spaces }
  IN IF keep = {} THEN <<>> ELSE From(s, SetMin(keep) - 1)

\* parseInterfaceLine on a trimmed line: the pattern ^(--[\w-]+):\s*(.+)$,
\* then the specification before " - " and the description behind it
parseInterfaceLine(s) ==
  LET colon == Index(s, <<":">>)
      match == /\ HasPrefix(s, <<"-", "-">>)
               /\ colon >= 3
               /\ \A k \in 3..colon : s[k] \in WordChars \cup {"-"}
               /\ Len(s) > colon + 1
      name  == SubSeq(s, 1, colon)
      rest  == TrimLeft(From(s, colon + 1))
      idx   == Index(rest, <<" ", "-", " ">>)
      specPart    == IF idx # -1 THEN SubSeq(rest, 1, idx) ELSE rest
      description == IF idx # -1 THEN From(rest, idx + 3) ELSE <<>>
      raw   == Split(specPart, ",")
      parts == [ k \in 1..Len(raw) |-> TrimSpace(raw[k]) ]
      defs  == { k \in 2..Len(parts) :
                   parts[k] # StrRequired /\ HasPrefix(parts[k], StrDefault) }
  IN IF ~match THEN NilArg
     ELSE Arg(name, parts[1],
              \E k \in 2..Len(parts) : parts[k] = StrRequired,
              IF defs = {} THEN <<>> ELSE TrimPrefix(parts[SetMax(defs)], StrDefault),
              TrimSpace(description))

\* the interface block swallows every line
LeavesInterface_never(trimmed) == FALSE

\* lines 351-353: inside an interface block a line that starts a tag closes
\* the block and is then read as a tag
LeavesInterface(trimmed) == HasPrefix(trimmed, <<"@">>)

\* line 361: t.Name = ...
SetName(t, name) == [t EXCEPT !.Name = name]

\* the pieces between runs of commas only
SplitKeywords_commaOnly(s) == The({ Tokens(v, {","}) : v \in { TrimSpace(s) } })

\* lines 390-395: the pieces between runs of commas and white space, the
\* empty ones dropped
SplitKeywords(s) == The({ Tokens(v, Spaces \cup {","}) : v \in { TrimSpace(s) } })

\* lines 359-410: the switch over the tag prefixes, in its order
parseTag(st, trimmed) ==
  LET t == st.t
  IN IF HasPrefix(trimmed, TagTool)
       THEN [st EXCEPT !.t = SetName(t, TrimSpace(From(trimmed, 6)))]
     ELSE IF HasPrefix(trimmed, TagVersion)
       THEN [st EXCEPT !.t.Version = TrimSpace(From(trimmed, 9))]
     ELSE IF HasPrefix(trimmed, TagProvides)
       THEN [st EXCEPT !.t.Provides = @ \o Fields(From(trimmed, 10))]
     ELSE IF HasPrefix(trimmed, TagRequires)
       THEN [st EXCEPT !.t.Requires = @ \o Fields(From(trimmed, 10))]
     ELSE IF HasPrefix(trimmed, TagOutput)
       THEN [st EXCEPT !.t.Output = TrimSpace(From(trimmed, 8))]
     ELSE IF HasPrefix(trimmed, TagFreshness)
       THEN [st EXCEPT !.t.Freshness = TrimSpace(From(trimmed, 11))]
     ELSE IF HasPrefix(trimmed, TagCapability)
       THEN [st EXCEPT !.t.Capabilities = Append(@, TrimSpace(From(trimmed, 12)))]
     ELSE IF HasPrefix(trimmed, TagBoundary)
       THEN [st EXCEPT !.t.Boundaries = Append(@, TrimSpace(From(trimmed, 10)))]
     ELSE IF HasPrefix(trimmed, TagKeywords)
       THEN [st EXCEPT !.t.Keywords = @ \o SplitKeywords(From(trimmed, 10))]
     ELSE IF HasPrefix(trimmed, TagInterface)
       THEN [st EXCEPT !.inInterface = TRUE]
     ELSE IF HasPrefix(trimmed, TagExample)
       THEN [st EXCEPT !.t.Examples = Append(@, TrimSpace(From(trimmed, 9)))]
     ELSE IF ~HasPrefix(trimmed, <<"@">>) /\ trimmed # <<>>
       THEN IF t.Name = <<>> /\ Len(t.Provides) = 0
              THEN [st EXCEPT !.descLines = Append(@, trimmed)]
              ELSE st
     ELSE st

\* lines 345-347: an argument line of the interface block
SetArg(st, arg) ==
  IF arg # NilArg THEN [st EXCEPT !.t.Interface = (arg.Name :> arg) @@ @] ELSE st

\* an argument line is taken wherever it stands
parseTrimmed_anywhere(st, trimmed) ==
  IF HasPrefix(trimmed, <<"-", "-">>)
    THEN The({ SetArg(st, arg) : arg \in { parseInterfaceLine(trimmed) } })
  ELSE IF st.inInterface /\ ~LeavesInterface(trimmed)
    THEN st
  ELSE parseTag([st EXCEPT !.inInterface = FALSE], trimmed)

\* lines 343-357: one turn of the loop over the lines, on the trimmed line
parseTrimmed(st, trimmed) ==
  IF st.inInterface /\ HasPrefix(trimmed, <<"-", "-">>)
    THEN The({ SetArg(st, arg) : arg \in { parseInterfaceLine(trimmed) } })
  ELSE IF st.inInterface /\ ~LeavesInterface(trimmed)
    THEN st
  ELSE parseTag([st EXCEPT !.inInterface = FALSE], trimmed)

parseLine(st, line) ==
  The({ parseTrimmed(st, trimmed) : trimmed \in { TrimSpace(line) } })

\* the loop over the lines from the k-th on
RECURSIVE parseLines(_, _, _)
parseLines(st, lines, k) ==
  IF k > Len(lines) THEN st
  ELSE The({ parseLines(next, lines, k + 1) : next \in { parseLine(st, lines[k]) } })

\* the first description line is taken
SetDescription_first(t, descLines) ==
  IF Len(descLines) >= 1 THEN [t EXCEPT !.Description = descLines[1]] ELSE t

\* lines 413-418: the second description line when there are several
SetDescription(t, descLines) ==
  IF Len(descLines) > 1 THEN [t EXCEPT !.Description = descLines[2]]
  ELSE IF Len(descLines) = 1 THEN [t EXCEPT !.Description = descLines[1]]
  ELSE t

\* parseDocstringTags on the lines of the docstring; "" splits into one
\* empty line
parseDocstringTags(docstring) ==
  The({ SetDescription(st.t, st.descLines) :
          st \in { parseLines([ t |-> NewTool, inInterface |-> FALSE, descLines |-> <<>> ],
                              IF docstring = <<>> THEN << <<>> >> ELSE docstring, 1) } })

\* a line of code before the docstring is passed over
extractLine_skipsCode(st, line, trimmed) ==
  IF HasPrefix(trimmed, <<"#">>) THEN st
  ELSE IF st.delim = <<>>
    THEN IF HasPrefix(trimmed, Quote3) \/ HasPrefix(trimmed, Apos3)
           THEN LET d == SubSeq(trimmed, 1, 3)
                    r == From(trimmed, 3)
                IN IF Contains(r, d)
                     THEN [st EXCEPT !.lines = << TrimSuffix(r, d) >>, !.done = TRUE]
                     ELSE [st EXCEPT !.delim = d, !.lines = Append(@, r)]
         ELSE st
  ELSE IF Contains(line, st.delim)
    THEN [st EXCEPT !.lines = Append(@, SubSeq(line, 1, Index(line, st.delim))),
                    !.done = TRUE]
  ELSE [st EXCEPT !.lines = Append(@, line)]

\* lines 284-320: one turn of the loop over the lines of the file.  The
\* state holds the delimiter (empty before the docstring opens), the lines
\* collected and whether the loop is left
extractLine(st, line, trimmed) ==
  IF HasPrefix(trimmed, <<"#">>) THEN st
  ELSE IF st.delim = <<>>
    THEN IF HasPrefix(trimmed, Quote3) \/ HasPrefix(trimmed, Apos3)
           THEN LET d == SubSeq(trimmed, 1, 3)
                    r == From(trimmed, 3)
                IN IF Contains(r, d)
                     THEN [st EXCEPT !.lines = << TrimSuffix(r, d) >>, !.done = TRUE]
                     ELSE [st EXCEPT !.delim = d, !.lines = Append(@, r)]
         ELSE IF trimmed # <<>> THEN [st EXCEPT !.lines = <<>>, !.done = TRUE]
         ELSE st
  ELSE IF Contains(line, st.delim)
    THEN [st EXCEPT !.lines = Append(@, SubSeq(line, 1, Index(line, st.delim))),
                    !.done = TRUE]
  ELSE [st EXCEPT !.lines = Append(@, line)]

\* the loop over the lines of the file from the k-th on
RECURSIVE extractFrom(_, _, _)
extractFrom(st, fileLines, k) ==
  IF st.done \/ k > Len(fileLines) THEN st.lines
  ELSE The({ extractFrom(next, fileLines, k + 1) :
               next \in { extractLine(st, fileLines[k], TrimSpace(fileLines[k])) } })

extractPythonDocstring(fileLines) ==
  extractFrom([ delim |-> <<>>, lines |-> <<>>, done |-> FALSE ], fileLines, 1)

\* a source file: what opening and reading it answers, and its lines
SourceFile(fault, lines) == [ fault |-> fault, lines |-> lines ]

\* line 264: a descriptor without a name is not a tool
IsTool(t) == t # NilTool /\ t.Name # <<>>

\* PythonScanner.Scan: the descriptor (or nil) and the error
\* lines 262-272: what Scan answers for the descriptor parsed
ScanResult(path, t) ==
  IF ~IsTool(t) THEN [ t |-> NilTool, err |-> "none" ]
  ELSE [ t |-> [t EXCEPT !.File = path, !.Language = StrPython], err |-> "none" ]

\* lines 254-262: what Scan does with the docstring extracted
ScanDocstring(path, docstring) ==
  IF IsEmptyText(docstring) THEN [ t |-> NilTool, err |-> "none" ]
  ELSE The({ ScanResult(path, t) : t \in { parseDocstringTags(docstring) } })

Scan(path, f) ==
  IF f.fault # "none" THEN [ t |-> NilTool, err |-> f.fault ]
  ELSE The({ ScanDocstring(path, docstring) :
               docstring \in { extractPythonDocstring(f.lines) } })

-----------------------------------------------------------------------------
(* The Registry of pkg/tool as the scanner fills it.                       *)

\* NewRegistry: the empty map
NewRegistry == <<>>

\* every descriptor but nil is stored
Accepts_anyName(t) == t # NilTool

\* line 46: nil and nameless descriptors are not stored
Accepts(t) == t # NilTool /\ t.Name # <<>>

\* a name that is taken keeps its descriptor
Store_firstWins(reg, t) == reg @@ (t.Name :> t)

\* line 47: r.Tools[t.Name] = t
Store(reg, t) == (t.Name :> t) @@ reg

\* Registry.Add
Add(reg, t) == IF Accepts(t) THEN Store(reg, t) ELSE reg

\* Registry.Get: the descriptor under the name, nil without one
RegistryGet(reg, name) == IF name \in DOMAIN reg THEN reg[name] ELSE NilTool

\* one call of Registry.Add: the descriptor, who made the call ("scan" or
\* "call") and, for the scanner, the root it was walking
Added(t, by, dir) == [ t |-> t, by |-> by, dir |-> dir ]

\* the answer of the last Get or FindByProvides on the registry
Lookup(op, key, res) == [ op |-> op, key |-> key, res |-> res ]

NoLookup == Lookup("none", <<>>, NilTool)

-----------------------------------------------------------------------------
(* The directory scanner.  A path is the sequence of its elements; the     *)
(* file system maps the paths that exist to a directory (with the names    *)
(* os.ReadDir lists, sorted) or to a file.                                  *)

\* lines 485-501: the exclusion set
skipDirs ==
  { <<".", "v", "e", "n", "v">>,
    <<"v", "e", "n", "v">>,
    <<".", "e", "n", "v">>,
    <<"e", "n", "v">>,
    <<"n", "o", "d", "e", "_", "m", "o", "d", "u", "l", "e", "s">>,
    <<"_", "_", "p", "y", "c", "a", "c", "h", "e", "_", "_">>,
    <<".", "g", "i", "t">>,
    <<".", "t", "o", "x">>,
    <<".", "n", "o", "x">>,
    <<".", "m", "y", "p", "y", "_", "c", "a", "c", "h", "e">>,
    <<".", "p", "y", "t", "e", "s", "t", "_", "c", "a", "c", "h", "e">>,
    <<"d", "i", "s", "t">>,
    <<"b", "u", "i", "l", "d">>,
    <<".", "e", "g", "g", "s">>,
    <<"s", "i", "t", "e", "-", "p", "a", "c", "k", "a", "g", "e", "s">> }

StrEggInfo == <<".", "e", "g", "g", "-", "i", "n", "f", "o">>

StrPy == <<".", "p", "y">>

\* only the names of the exclusion set are pruned
shouldSkipDir_exactOnly(name) == name \in skipDirs

\* lines 504-513
shouldSkipDir(name) == name \in skipDirs \/ HasSuffix(name, StrEggInfo)

\* info.Name(): the last element of the path
BaseName(path) == path[Len(path)]

\* filepath.Ext: the suffix from the last dot of the last element on
PathExt(path) ==
  LET name == BaseName(path)
      dots == { k \in 1..Len(name) : name[k] = "." }
  IN IF dots = {} THEN <<>> ELSE From(name, SetMax(dots) - 1)

\* SupportedExtensions: those of the registered scanners, PythonScanner only
SupportedExtensions == { StrPy }

\* GetScanner, with PythonScanner.CanScan
GetScanner(path) == IF PathExt(path) = StrPy THEN "python" ELSE "nil"

\* lines 614-617: files whose name starts with _ or . are private
IsPrivate(name) == Len(name) > 0 /\ (name[1] = "_" \/ name[1] = ".")

DirNode(fault, names) == [ kind |-> "dir", fault |-> fault, names |-> names ]

FileNode(f) == [ kind |-> "file", file |-> f ]

\* a source file with a docstring that declares a tool and what it provides
ToolFile(name, provides) ==
  SourceFile("none", << Quote3, TagTool \o name, TagProvides \o provides, Quote3 >>)

PyFile(stem) == stem \o StrPy

DotGit == <<".", "g", "i", "t">>

NodeModules == <<"n", "o", "d", "e", "_", "m", "o", "d", "u", "l", "e", "s">>

Build == <<"b", "u", "i", "l", "d">>

PkgEggInfo == <<"p", "k", "g">> \o StrEggInfo

DirT == <<"t">>

DirL == <<"l">>

DirS == <<"s">>

DirK == <<"k">>

\* the disk the scanner is run on; reading f.py can fail
Disk ==
  \* t/
  (<<DirT>> :> DirNode("none", << DotGit, PyFile(<<"_", "p">>), PyFile(<<"a">>),
                                  PyFile(<<"f">>), PyFile(<<"m">>), NodeModules,
                                  <<"n", ".", "t", "x", "t">>, PkgEggInfo, DirS >>)) @@
  (<<DirT, DotGit>> :> DirNode("none", << PyFile(<<"g">>) >>)) @@
  (<<DirT, DotGit, PyFile(<<"g">>)>> :> FileNode(ToolFile(<<"g">>, <<"y">>))) @@
  (<<DirT, PyFile(<<"_", "p">>)>> :> FileNode(ToolFile(<<"p">>, <<"x">>))) @@
  (<<DirT, PyFile(<<"a">>)>> :> FileNode(ToolFile(<<"a">>, <<"x">>))) @@
  (<<DirT, PyFile(<<"f">>)>> :>
     FileNode(SourceFile("flaky", ToolFile(<<"f">>, <<"x">>).lines))) @@
  (<<DirT, PyFile(<<"m">>)>> :>
     FileNode(SourceFile("none", << <<"i", "m", "p", "o", "r", "t", " ", "o", "s">> >>))) @@
  (<<DirT, NodeModules>> :> DirNode("none", << PyFile(<<"n">>) >>)) @@
  (<<DirT, NodeModules, PyFile(<<"n">>)>> :> FileNode(ToolFile(<<"n">>, <<"y">>))) @@
  (<<DirT, <<"n", ".", "t", "x", "t">> >> :> FileNode(ToolFile(<<"t">>, <<"x">>))) @@
  (<<DirT, PkgEggInfo>> :> DirNode("none", << PyFile(<<"e">>) >>)) @@
  (<<DirT, PkgEggInfo, PyFile(<<"e">>)>> :> FileNode(ToolFile(<<"e">>, <<"y">>))) @@
  \* t/s/ lists z.py, which is gone when the walk comes to it
  (<<DirT, DirS>> :> DirNode("none", << PyFile(<<"b">>), DirK, PyFile(<<"z">>) >>)) @@
  (<<DirT, DirS, PyFile(<<"b">>)>> :> FileNode(ToolFile(<<"b">>, <<"y">>))) @@
  \* t/s/k/ cannot be listed
  (<<DirT, DirS, DirK>> :> DirNode("read", <<>>)) @@
  (<<DirT, DirS, DirK, PyFile(<<"h">>)>> :> FileNode(ToolFile(<<"h">>, <<"y">>))) @@
  \* l/
  (<<DirL>> :> DirNode("none", << PyFile(<<"a">>), PyFile(<<"c">>) >>)) @@
  (<<DirL, PyFile(<<"a">>)>> :> FileNode(ToolFile(<<"a">>, <<"x", " ", "y">>))) @@
  (<<DirL, PyFile(<<"c">>)>> :> FileNode(ToolFile(<<"c">>, <<"x">>))) @@
  \* build/ and build/t/
  (<<Build>> :> DirNode("none", << DirT >>)) @@
  (<<Build, DirT>> :> DirNode("none", << PyFile(<<"d">>) >>)) @@
  (<<Build, DirT, PyFile(<<"d">>)>> :> FileNode(ToolFile(<<"d">>, <<"z">>)))

\* the directories a source list can name: t, l, build/t, one that does not
\* exist, t/.git, build and t/pkg.egg-info
RootDirs ==
  { <<DirT>>, <<DirL>>, <<Build, DirT>>, <<<<"g", "o", "n", "e">>>>, <<DirT, DotGit>>,
    <<Build>>, <<DirT, PkgEggInfo>> }

RootLists == BoundedSeq(RootDirs, MaxRoots)

\* the descriptors a caller hands to Registry.Add
Descriptors ==
  { NilTool,
    NewTool,
    [NewTool EXCEPT !.Name = <<"a">>, !.Provides = << <<"x">> >>],
    [NewTool EXCEPT !.Name = <<"a">>, !.Provides = << <<"z">>, <<"y">> >>],
    [NewTool EXCEPT !.Name = <<"b">>, !.Provides = << <<"y">> >>],
    [NewTool EXCEPT !.Name = <<"c">>] }

\* the names asked of Get and FindByProvides
LookupKeys == { <<>>, <<"a">>, <<"b">>, <<"x">>, <<"y">>, <<"z">> }

\* the scan: where it stands, the root it walks, the paths the walk still
\* has to report, those it reported, the files whose scan failed, and the
\* error ScanDirectories returns
Walk(pc, dir, queue, seen, err) ==
  [ pc |-> pc, dir |-> dir, queue |-> queue, seen |-> seen, failed |-> {},
    err |-> err ]

\* a path the walk of the dir-th root reported to the callback
Seen(path, dir) == [ path |-> path, dir |-> dir ]

NoWalk == Walk("idle", 0, <<>>, <<>>, "unset")

\* the walk stops at the file
AfterScanError_abort(rest) == <<>>

\* lines 630-633: a file whose scan fails is passed over
AfterScanError(rest) == rest

\* the scan of a single file has not answered
NotScanned == [ done |-> FALSE, t |-> NilTool, err |-> "none" ]

\* the freshness check has not answered
NoVerdict == [ done |-> FALSE, fresh |-> FALSE, msg |-> [word |-> "", n |-> 0, unit |-> ""] ]

-----------------------------------------------------------------------------
(* Each command of tctl uses the packages in its own way; the variables of  *)
(* the parts a specification does not exercise stay at rest.                *)

\* no resolution under way
ResolverIdle ==
  /\ intents = [ n \in {} |-> <<>> ]
  /\ visited = {}
  /\ stack = <<>>
  /\ trace = <<>>
  /\ calls = <<>>
  /\ success = <<>>
  /\ callsLeft = 0

\* no scan under way
ScanIdle ==
  /\ roots = <<>>
  /\ walk = NoWalk
  /\ added = <<>>
  /\ lookup = NoLookup

\* no single file being scanned
ParseIdle ==
  /\ descriptor = NilTool
  /\ source = SourceFile("none", <<>>)
  /\ scanned = NotScanned

\* no output file being checked
FreshIdle ==
  /\ outFile = StatMissing
  /\ policy = ""
  /\ verdict = NoVerdict

\* no operation on the source list has been made
NoOutcome == [ n |-> 0, op |-> "none", arg |-> <<>>, err |-> "" ]

\* no source list being edited
SourceIdle ==
  /\ sources = <<>>
  /\ saved = <<>>
  /\ outcome = NoOutcome

-----------------------------------------------------------------------------
(* The event log: one record per call, freshness check, production and     *)
(* return of ensureData, in program order.                                  *)

Event(ev, id, par, target, tool, ok, detail) ==
  [ ev |-> ev, id |-> id, par |-> par, target |-> target, tool |-> tool,
    ok |-> ok, detail |-> detail ]

\* the table of the calls made so far, by call id: target, caller (0 for
\* getCmd) and answer once returned
CallRec(target, par) == [ target |-> target, par |-> par, ret |-> "open" ]

Frame(id, target) == [ id |-> id, target |-> target, pc |-> "entry", tool |-> "", idx |-> 1 ]

Top == stack[Len(stack)]

-----------------------------------------------------------------------------
(* ensureData, one action per step between two calls or returns.           *)

\* the mark is lost
MarkVisited_lost(v, target) == v

\* line 328: visited[target] = true
MarkVisited(v, target) == v \cup {target}

\* the callee's answer is not looked at
Resume_ignored(parent, v) == [parent EXCEPT !.idx = @ + 1]

\* lines 334-336 and 366-368: the caller's loop takes the callee's answer;
\* false makes the caller return false, true moves it to the next member
Resume(parent, v) ==
  IF v THEN [parent EXCEPT !.idx = @ + 1]
       ELSE [parent EXCEPT !.pc = "fail"]

\* the freshness of every tool is checked
NeedsCheck_always(t) == TRUE

\* line 350: only a tool with an output path has its freshness checked
NeedsCheck(t) == t.Output # ""

\* the exit code is not looked at
RunSucceeded_anyCode(res) == res.err = "none"

\* lines 373-380: the production counts as done only without an error and
\* with exit code 0
RunSucceeded(res) == res.err = "none" /\ res.code = 0

\* the early return is lost
SkipsProduction_never(fresh) == FALSE

\* lines 357-360: a fresh output ends the call with success, without production
SkipsProduction(fresh) == fresh

\* the loop over the requires list is left out
DepsFinished_skipped(fr, t) == TRUE

\* lines 365-369: the tool is run only after the loop over its requires list
DepsFinished(fr, t) == fr.idx > Len(t.Requires)

\* the includes list is walked from its end
IntentItem_reversed(intent, idx) == intent[Len(intent) + 1 - idx]

\* lines 333-334: the intent's members are taken in listed order
IntentItem(intent, idx) == intent[idx]

\* the frame returns v to its caller (or to getCmd when it is the outermost)
Return(evs, v) ==
  LET rest == SubSeq(stack, 1, Len(stack) - 1)
      ret  == Event("ret", Top.id, 0, Top.target, Top.tool, v, "")
  IN /\ trace' = trace \o evs \o <<ret>>
     /\ calls' = [calls EXCEPT ![Top.id].ret = IF v THEN "true" ELSE "false"]
     /\ IF rest = <<>>
          THEN /\ stack' = <<>>
               /\ success' = Append(success, v)
          ELSE /\ stack' = [rest EXCEPT ![Len(rest)] = Resume(@, v)]
               /\ success' = success

\* the frame calls ensureData(item) and waits for its answer
Call(item) ==
  LET id == Len(calls) + 1
  IN /\ Len(stack) < MaxDepth
     /\ stack' = Append(stack, Frame(id, item))
     /\ calls' = Append(calls, CallRec(item, Top.id))
     /\ trace' = Append(trace, Event("call", id, Top.id, item, "", TRUE, ""))

\* getCmd, lines 310-311: the outermost call
Get(target) ==
  /\ stack = <<>>
  /\ callsLeft > 0
  /\ callsLeft' = callsLeft - 1
  /\ stack' = <<Frame(Len(calls) + 1, target)>>
  /\ calls' = Append(calls, CallRec(target, 0))
  /\ trace' = Append(trace, Event("call", Len(calls) + 1, 0, target, "", TRUE, ""))
  /\ UNCHANGED <<libVars, registry, intents, visited, success>>

AtEntry == stack # <<>> /\ Top.pc = "entry"

\* lines 325-327
EnsureVisited ==
  /\ AtEntry
  /\ Top.target \in visited
  /\ Return(<<>>, TRUE)
  /\ UNCHANGED <<libVars, registry, intents, visited, callsLeft>>

\* lines 328-332: the target names an intent
EnsureIntent ==
  /\ AtEntry
  /\ Top.target \notin visited
  /\ GetIntent(intents, Top.target)
  /\ visited' = MarkVisited(visited, Top.target)
  /\ stack' = [stack EXCEPT ![Len(stack)].pc = "intent"]
  /\ UNCHANGED <<libVars, registry, intents, trace, calls, success, callsLeft>>

\* lines 342-347: no tool provides the target
EnsureUnknown ==
  /\ AtEntry
  /\ Top.target \notin visited
  /\ ~GetIntent(intents, Top.target)
  /\ FindByProvides(registry, Top.target) = {}
  /\ visited' = MarkVisited(visited, Top.target)
  /\ Return(<<Event("find", Top.id, 0, Top.target, "", FALSE, "")>>, FALSE)
  /\ UNCHANGED <<libVars, registry, intents, callsLeft>>

\* lines 342-362: a tool with an output path, whose freshness is checked
EnsureCheck ==
  /\ AtEntry
  /\ Top.target \notin visited
  /\ ~GetIntent(intents, Top.target)
  /\ \E n \in FindByProvides(registry, Top.target), st \in StatOutcomes :
       LET t  == registry[n]
           c  == Check(st, t.Freshness)
           fd == Event("find", Top.id, 0, Top.target, n, TRUE, "")
           ev == Event("check", Top.id, 0, Top.target, n, c.fresh, st.kind)
       IN /\ NeedsCheck(t)
          /\ visited' = MarkVisited(visited, Top.target)
          /\ IF SkipsProduction(c.fresh)
               THEN Return(<<fd, ev>>, TRUE)
               ELSE /\ stack' = [stack EXCEPT ![Len(stack)].pc = "deps",
                                              ![Len(stack)].tool = n]
                    /\ trace' = trace \o <<fd, ev>>
                    /\ calls' = calls
                    /\ success' = success
  /\ UNCHANGED <<libVars, registry, intents, callsLeft>>

\* lines 342-350: a tool without an output path goes straight to its requires
EnsureNoOutput ==
  /\ AtEntry
  /\ Top.target \notin visited
  /\ ~GetIntent(intents, Top.target)
  /\ \E n \in FindByProvides(registry, Top.target) :
       /\ ~NeedsCheck(registry[n])
       /\ visited' = MarkVisited(visited, Top.target)
       /\ stack' = [stack EXCEPT ![Len(stack)].pc = "deps", ![Len(stack)].tool = n]
       /\ trace' = Append(trace, Event("find", Top.id, 0, Top.target, n, TRUE, ""))
  /\ UNCHANGED <<libVars, registry, intents, calls, success, callsLeft>>

\* lines 333-334: the intent ensures its next member
IntentCall ==
  /\ stack # <<>>
  /\ Top.pc = "intent"
  /\ Top.idx <= Len(intents[Top.target])
  /\ Call(IntentItem(intents[Top.target], Top.idx))
  /\ UNCHANGED <<libVars, registry, intents, visited, success, callsLeft>>

\* line 338: every member succeeded
IntentDone ==
  /\ stack # <<>>
  /\ Top.pc = "intent"
  /\ Top.idx > Len(intents[Top.target])
  /\ Return(<<>>, TRUE)
  /\ UNCHANGED <<libVars, registry, intents, visited, callsLeft>>

\* lines 365-366: the tool ensures its next requirement
DepsCall ==
  /\ stack # <<>>
  /\ Top.pc = "deps"
  /\ ~DepsFinished(Top, registry[Top.tool])
  /\ Top.idx <= Len(registry[Top.tool].Requires)
  /\ Call(registry[Top.tool].Requires[Top.idx])
  /\ UNCHANGED <<libVars, registry, intents, visited, success, callsLeft>>

\* lines 371-386: every requirement succeeded, the tool is run
RunTool ==
  /\ stack # <<>>
  /\ Top.pc = "deps"
  /\ DepsFinished(Top, registry[Top.tool])
  /\ \E res \in Run(registry[Top.tool]) :
       Return(<<Event("run", Top.id, 0, Top.target, Top.tool, res.code = 0, res.err)>>,
              RunSucceeded(res))
  /\ UNCHANGED <<libVars, registry, intents, visited, callsLeft>>

\* lines 335 and 367: a member failed, the caller returns false
Propagate ==
  /\ stack # <<>>
  /\ Top.pc = "fail"
  /\ Return(<<>>, FALSE)
  /\ UNCHANGED <<libVars, registry, intents, visited, callsLeft>>

InitWith(n, regs) ==
  /\ registry \in regs
  /\ intents \in IntentMaps
  /\ visited = {}
  /\ stack = <<>>
  /\ trace = <<>>
  /\ calls = <<>>
  /\ success = <<>>
  /\ callsLeft = n
  /\ ScanIdle
  /\ ParseIdle
  /\ FreshIdle
  /\ SourceIdle

\* tctl get: one outermost call on an empty visited-set
Init == InitWith(1, Registries)

\* several outermost calls that share one visited-set
SeqInit == InitWith(MaxCalls, SeqRegistries)

Next ==
  \/ \E target \in Targets : Get(target)
  \/ EnsureVisited
  \/ EnsureIntent
  \/ EnsureUnknown
  \/ EnsureCheck
  \/ EnsureNoOutput
  \/ IntentCall
  \/ IntentDone
  \/ DepsCall
  \/ RunTool
  \/ Propagate

Spec == Init /\ [][Next]_vars

SeqSpec == SeqInit /\ [][Next]_vars

\* the resolver is one sequential procedure: it keeps stepping until it returns
LiveSpec == Init /\ [][Next]_vars /\ WF_vars(Next)

-----------------------------------------------------------------------------
(* ScanDirectories, one action per root and per path the walk reports, and  *)
(* the calls a command makes on the Registry.                               *)

\* the paths of the names a directory lists, in the order of the listing
Listing(path) ==
  LET node == Disk[path]
  IN IF node.fault # "none" THEN <<>>
     ELSE [ k \in 1..Len(node.names) |-> Append(path, node.names[k]) ]

\* what opening and reading a source file can answer during a scan
ReadFaults == {"none", "open", "read"}

\* lines 581-583: ScanDirectories starts from a new Registry
ScanStart ==
  /\ walk.pc = "idle"
  /\ added = <<>>
  /\ registry' = NewRegistry
  /\ added' = <<>>
  /\ lookup' = NoLookup
  /\ walk' = Walk("dirs", 1, <<>>, <<>>, "unset")
  /\ UNCHANGED <<roots, resolverVars, parseVars, freshVars, sourceVars>>

\* lines 594-598: a root that does not exist is passed over
RootMissing ==
  /\ walk.pc = "dirs"
  /\ walk.dir <= Len(roots)
  /\ roots[walk.dir] \notin DOMAIN Disk
  /\ walk' = [walk EXCEPT !.dir = @ + 1]
  /\ UNCHANGED <<registry, roots, added, lookup, resolverVars, parseVars, freshVars, sourceVars>>

\* line 600: filepath.Walk starts at the root
RootWalk ==
  /\ walk.pc = "dirs"
  /\ walk.dir <= Len(roots)
  /\ roots[walk.dir] \in DOMAIN Disk
  /\ walk' = [walk EXCEPT !.pc = "walk", !.queue = <<roots[walk.dir]>>]
  /\ UNCHANGED <<registry, roots, added, lookup, resolverVars, parseVars, freshVars, sourceVars>>

AtPath == walk.pc = "walk" /\ walk.queue # <<>>

\* lines 601-603: the walk reports a path it cannot stat; the callback
\* answers nil and the walk goes on
VisitGone ==
  /\ AtPath
  /\ Head(walk.queue) \notin DOMAIN Disk
  /\ walk' = [walk EXCEPT !.queue = Tail(@)]
  /\ UNCHANGED <<registry, roots, added, lookup, resolverVars, parseVars, freshVars, sourceVars>>

\* the root of a walk is entered whatever its name
VisitDir_rootExempt ==
  /\ AtPath
  /\ LET path == Head(walk.queue)
     IN /\ path \in DOMAIN Disk
        /\ Disk[path].kind = "dir"
        /\ walk' = [walk EXCEPT
                      !.seen  = Append(@, Seen(path, walk.dir)),
                      !.queue = IF shouldSkipDir(BaseName(path)) /\ path # roots[walk.dir]
                                  THEN Tail(@)
                                  ELSE Listing(path) \o Tail(@)]
  /\ UNCHANGED <<registry, roots, added, lookup, resolverVars, parseVars, freshVars, sourceVars>>

\* lines 605-611: a directory is pruned or entered (a directory that cannot
\* be listed is reported a second time with the error and left)
VisitDir ==
  /\ AtPath
  /\ LET path == Head(walk.queue)
     IN /\ path \in DOMAIN Disk
        /\ Disk[path].kind = "dir"
        /\ walk' = [walk EXCEPT
                      !.seen  = Append(@, Seen(path, walk.dir)),
                      !.queue = IF shouldSkipDir(BaseName(path))
                                  THEN Tail(@)
                                  ELSE Listing(path) \o Tail(@)]
  /\ UNCHANGED <<registry, roots, added, lookup, resolverVars, parseVars, freshVars, sourceVars>>

\* lines 613-637: a file is passed over, or scanned and its tool added
VisitFile ==
  /\ AtPath
  /\ LET path == Head(walk.queue)
         rest == Tail(walk.queue)
     IN /\ path \in DOMAIN Disk
        /\ Disk[path].kind = "file"
        /\ \E fault \in (IF Disk[path].file.fault = "none" THEN {"none"} ELSE ReadFaults) :
             LET r == Scan(path, SourceFile(fault, Disk[path].file.lines))
             IN IF \/ IsPrivate(BaseName(path))
                   \/ PathExt(path) \notin SupportedExtensions
                   \/ GetScanner(path) = "nil"
                  THEN /\ walk' = [walk EXCEPT !.seen = Append(@, Seen(path, walk.dir)), !.queue = rest]
                       /\ UNCHANGED <<registry, added, sourceVars>>
                ELSE IF r.err # "none"
                  THEN /\ walk' = [walk EXCEPT !.seen = Append(@, Seen(path, walk.dir)),
                                               !.failed = @ \cup {path},
                                               !.queue = AfterScanError(rest)]
                       /\ UNCHANGED <<registry, added, sourceVars>>
                ELSE IF r.t # NilTool
                  THEN /\ walk' = [walk EXCEPT !.seen = Append(@, Seen(path, walk.dir)), !.queue = rest]
                       /\ registry' = Add(registry, r.t)
                       /\ added' = Append(added, Added(r.t, "scan", walk.dir))
                ELSE /\ walk' = [walk EXCEPT !.seen = Append(@, Seen(path, walk.dir)), !.queue = rest]
                     /\ UNCHANGED <<registry, added, sourceVars>>
  /\ UNCHANGED <<roots, lookup, resolverVars, parseVars, freshVars, sourceVars>>

\* the walk of one root is over; line 594 takes the next
WalkDone ==
  /\ walk.pc = "walk"
  /\ walk.queue = <<>>
  /\ walk' = [walk EXCEPT !.pc = "dirs", !.dir = @ + 1]
  /\ UNCHANGED <<registry, roots, added, lookup, resolverVars, parseVars, freshVars, sourceVars>>

\* line 642: return registry, nil
ScanReturn ==
  /\ walk.pc = "dirs"
  /\ walk.dir > Len(roots)
  /\ walk' = [walk EXCEPT !.pc = "done", !.err = "nil"]
  /\ UNCHANGED <<registry, roots, added, lookup, resolverVars, parseVars, freshVars, sourceVars>>

\* the registry is not being filled by a scan
AtRest == walk.pc \in {"idle", "done"}

\* a caller without source roots fills a Registry of its own by calls of Add
AddCall(t) ==
  /\ walk.pc = "idle"
  /\ roots = <<>>
  /\ Len(added) < MaxAdds
  /\ registry' = Add(registry, t)
  /\ added' = Append(added, Added(t, "call", 0))
  /\ lookup' = NoLookup
  /\ UNCHANGED <<roots, walk, resolverVars, parseVars, freshVars, sourceVars>>

\* a caller asks the registry for a tool by name
LookupGet(name) ==
  /\ AtRest
  /\ lookup' = Lookup("get", name, RegistryGet(registry, name))
  /\ UNCHANGED <<registry, roots, walk, added, resolverVars, parseVars, freshVars, sourceVars>>

\* a caller asks the registry for a tool that provides a name; nil when
\* FindByProvides has no tool to answer
LookupFind(data) ==
  /\ AtRest
  /\ \E t \in IF FindByProvides(registry, data) = {}
                THEN { NilTool }
                ELSE { registry[n] : n \in FindByProvides(registry, data) } :
       lookup' = Lookup("find", data, t)
  /\ UNCHANGED <<registry, roots, walk, added, resolverVars, parseVars, freshVars, sourceVars>>

ScanInit ==
  /\ registry = NewRegistry
  /\ roots \in RootLists
  /\ walk = NoWalk
  /\ added = <<>>
  /\ lookup = NoLookup
  /\ ResolverIdle
  /\ ParseIdle
  /\ FreshIdle
  /\ SourceIdle

ScanNext ==
  \/ ScanStart
  \/ RootMissing
  \/ RootWalk
  \/ VisitGone
  \/ VisitDir
  \/ VisitFile
  \/ WalkDone
  \/ ScanReturn
  \/ \E t \in Descriptors : AddCall(t)
  \/ \E name \in LookupKeys : LookupGet(name)
  \/ \E data \in LookupKeys : LookupFind(data)

\* the life of one Registry: a command gets it from ScanDirectories over its
\* source roots, or a caller fills a new one by calls of Add; then it is read
ScanSpec == ScanInit /\ [][ScanNext]_vars

-----------------------------------------------------------------------------
(* PythonScanner.Scan on one source file whose docstring is a tag block     *)
(* written by hand.                                                         *)

\* longest tag block, in lines
MaxLines == 3

\* the lines a tag block is written from
BlockLines ==
  { TagTool \o <<"a">>,
    <<" ">> \o TagTool \o <<"b", " ">>,
    TagInterface,
    <<"-", "-", "o", ":", " ", "f", "i", "l", "e">>,
    TagProvides \o <<"x">>,
    <<"d", "o", "c">>,
    <<>> }

\* the tag blocks scanned: up to MaxLines of these lines, and the same with a
\* closing `@tool t` line, which gives the block a name
TagBlocks ==
  { block \o tail : block \in BoundedSeq(BlockLines, MaxLines),
                    tail \in { <<>>, << TagTool \o <<"t">> >> } }

\* a source file whose first statement is the docstring holding the block
DocFile(block) == SourceFile("none", <<Quote3>> \o block \o <<Quote3>>)

\* the file the scanner is handed
ScanPath == <<DirT, PyFile(<<"a">>)>>

\* Scan answers for the file: opening or reading it may fail
ScanFile ==
  /\ ~scanned.done
  /\ \E fault \in ReadFaults :
       scanned' = [ done |-> TRUE ] @@ Scan(ScanPath, [source EXCEPT !.fault = fault])
  /\ UNCHANGED <<descriptor, source, registry, resolverVars, scanVars, freshVars, sourceVars>>

ParseInit ==
  /\ descriptor = NilTool
  /\ \E block \in TagBlocks : source = DocFile(block)
  /\ scanned = NotScanned
  /\ registry = NewRegistry
  /\ ResolverIdle
  /\ ScanIdle
  /\ FreshIdle
  /\ SourceIdle

ParseNext == ScanFile

ParseSpec == ParseInit /\ [][ParseNext]_vars

-----------------------------------------------------------------------------
(* PythonScanner.Scan on source files whose docstring, a valid tag block,   *)
(* comes after other lines.                                                 *)

\* the lines a file can open with: blank, shebang, comment, code
PreambleLines ==
  { <<>>,
    <<" ", " ">>,
    <<"#", "!", "p", "y">>,
    <<" ", "#", " ", "c">>,
    <<"i", "m", "p", "o", "r", "t", " ", "o", "s">> }

\* docstrings that declare tool a: on several lines with either delimiter,
\* and on one line
ToolDocs ==
  { << Quote3, TagTool \o <<"a">>, TagProvides \o <<"x">>, Quote3 >>,
    << Apos3 \o <<"a">>, TagTool \o <<"a">>, Apos3 >>,
    << <<" ">> \o Quote3 \o TagTool \o <<"a">> \o Quote3 >> }

\* the files scanned: up to MaxLines opening lines, then the docstring
PreambleFiles ==
  { SourceFile("none", pre \o doc) :
      pre \in BoundedSeq(PreambleLines, MaxLines), doc \in ToolDocs }

ExtractInit ==
  /\ descriptor = NilTool
  /\ source \in PreambleFiles
  /\ scanned = NotScanned
  /\ registry = NewRegistry
  /\ ResolverIdle
  /\ ScanIdle
  /\ FreshIdle
  /\ SourceIdle

ExtractNext == ScanFile

ExtractSpec == ExtractInit /\ [][ExtractNext]_vars

-----------------------------------------------------------------------------
(* freshness.Check on one output file.                                      *)

\* seconds a file's age is taken off a threshold, either way
MaxSkew == 1

\* the age that lies d seconds past (d < 0: short of) n whole hours
HoursAnd(n, d) == IF d < 0 THEN Dur(n - 1, 3600 + d) ELSE Dur(n, d)

\* ages of the output file: new, around every threshold of the table, around
\* the changes of unit of the message, and a nanosecond short of a whole hour
FileAges ==
  { Dur(0, 0), Dur(0, 90), Dur(2, 0), Dur(48, 0) } \cup
  { Dur(0, 59), Dur(0, 3599), Dur(1, 0), Dur(47, 3599), Dur(4096, 0) } \cup
  { DurNs(h, 3599, 999999999) : h \in { 0, 23, 4095, 4799 } } \cup
  { HoursAnd(Thresholds[p].h, d) : p \in PolicyNames, d \in (0 - MaxSkew)..MaxSkew }

\* what os.Stat answers for the path checked
StatStates == { StatMissing, StatError } \cup { StatFile(age) : age \in FileAges }

\* the policy names Check is called with: the table's, none, and unknown ones
PolicyInputs == PolicyNames \cup { "", "hourly", "Manual" }

\* Check(path, freshnessPolicy) answers
CheckFile ==
  /\ ~verdict.done
  /\ verdict' = [ done |-> TRUE ] @@ Check(outFile, policy)
  /\ UNCHANGED <<outFile, policy, registry, resolverVars, scanVars, parseVars, sourceVars>>

FreshInit ==
  /\ outFile \in StatStates
  /\ policy \in PolicyInputs
  /\ verdict = NoVerdict
  /\ registry = NewRegistry
  /\ ResolverIdle
  /\ ScanIdle
  /\ ParseIdle
  /\ SourceIdle

FreshNext == CheckFile

FreshSpec == FreshInit /\ [][FreshNext]_vars

-----------------------------------------------------------------------------
(* A tag block written out from a descriptor, in the line shapes of the     *)
(* template of `tctl new`, and scanned back.                                *)

\* longest list a descriptor rendered holds
MaxItems == 2

\* `@tag a b c`: a list on one line, as the template writes @provides and
\* @keywords
TagLine(tag, items, sep) == tag \o Join(items, sep)

\* `@tag text`, one line per entry, as the template writes @capability
TagLines(tag, items) == [ k \in 1..Len(items) |-> tag \o items[k] ]

\* the tag block of a descriptor, in the template's order of tags
Render(d) ==
  << TagTool \o d.Name,
     TagLine(TagProvides, d.Provides, <<" ">>),
     TagLine(TagRequires, d.Requires, <<" ">>) >> \o
  TagLines(TagCapability, d.Capabilities) \o
  TagLines(TagBoundary, d.Boundaries) \o
  << TagLine(TagKeywords, d.Keywords, <<",", " ">>) >> \o
  TagLines(TagExample, d.Examples)

\* artifact names and keywords a descriptor is built with
ItemNames == { <<"x">>, <<"y", " ", "z">>, <<>> }

\* capability, boundary and example texts a descriptor is built with
ItemTexts == { <<"g", "o", " ", "x">>, <<" ", "g", "o">>, <<>> }

\* the descriptors rendered: two of the lists vary at a time
RenderedTools ==
  { [NewTool EXCEPT !.Name = <<"t">>, !.Provides = p, !.Requires = r] :
      p \in BoundedSeq(ItemNames, MaxItems), r \in BoundedSeq(ItemNames, MaxItems) } \cup
  { [NewTool EXCEPT !.Name = <<"t">>, !.Keywords = k, !.Examples = e] :
      k \in BoundedSeq(ItemNames, MaxItems), e \in BoundedSeq(ItemTexts, MaxItems) } \cup
  { [NewTool EXCEPT !.Name = <<"t">>, !.Capabilities = c, !.Boundaries = b] :
      c \in BoundedSeq(ItemTexts, MaxItems), b \in BoundedSeq(ItemTexts, MaxItems) }

\* the block is written into the docstring of a source file
RenderBlock ==
  /\ descriptor # NilTool
  /\ source.lines = <<>>
  /\ source' = DocFile(Render(descriptor))
  /\ UNCHANGED <<descriptor, scanned, registry, resolverVars, scanVars, freshVars, sourceVars>>

\* the file written is scanned
ScanRendered == source.lines # <<>> /\ ScanFile

RoundInit ==
  /\ descriptor \in RenderedTools
  /\ source = SourceFile("none", <<>>)
  /\ scanned = NotScanned
  /\ registry = NewRegistry
  /\ ResolverIdle
  /\ ScanIdle
  /\ FreshIdle
  /\ SourceIdle

RoundNext == RenderBlock \/ ScanRendered

RoundSpec == RoundInit /\ [][RoundNext]_vars

-----------------------------------------------------------------------------
(* The source list of the global configuration: Global.AddSource and       *)
(* Global.RemoveSource on one loaded Global.  A path is the sequence of its *)
(* elements, an absolute one starting with "/"; a name is a path of one     *)
(* element.                                                                 *)

\* sources in the list a Global is loaded with
MaxSources == 2
\* operations made on one Global
MaxOps == 3

\* the working directory of the process
SrcCwd == <<"/", "w">>

\* the directories and the plain file on the disk
SrcDirs == { <<"/", "w", "t">>, <<"/", "w", "l">>, <<"/", "s">> }

SrcFiles == { <<"/", "w", "f">> }

\* os.Stat followed by info.IsDir
StatKind(absPath) ==
  IF absPath \in SrcDirs THEN "dir"
  ELSE IF absPath \in SrcFiles THEN "file"
  ELSE "missing"

IsAbs(path) == path # <<>> /\ path[1] = "/"

\* filepath.Clean, element by element: "." is dropped and ".." takes the
\* element before it away, down to the root
RECURSIVE CleanOnto(_, _)
CleanOnto(acc, rest) ==
  IF rest = <<>> THEN acc
  ELSE IF Head(rest) = "." THEN CleanOnto(acc, Tail(rest))
  ELSE IF Head(rest) = ".."
    THEN CleanOnto(IF Len(acc) > 1 THEN SubSeq(acc, 1, Len(acc) - 1) ELSE acc,
                   Tail(rest))
  ELSE CleanOnto(Append(acc, Head(rest)), Tail(rest))

\* filepath.Abs: an absolute path is cleaned; a relative one is joined to the
\* working directory, and fails with the empty path when os.Getwd fails
Abs(path, wdFault) ==
  IF IsAbs(path) THEN [ path |-> CleanOnto(<<"/">>, Tail(path)), err |-> FALSE ]
  ELSE IF wdFault THEN [ path |-> <<>>, err |-> TRUE ]
  ELSE [ path |-> CleanOnto(SrcCwd, path), err |-> FALSE ]

\* filepath.Base of an absolute path, as a name
Base(absPath) == << absPath[Len(absPath)] >>

Source(path, name, at) == [ Path |-> path, Name |-> name, Added |-> at ]

\* the test is never met
Registered_never(srcs, absPath) == FALSE

\* lines 146-150: some source of the list has the path
Registered(srcs, absPath) == \E k \in 1..Len(srcs) : srcs[k].Path = absPath

\* line 176: the source is named by its path or by its name
Matches(src, absPath, pathOrName) == src.Path = absPath \/ src.Name = pathOrName

\* lines 174-181: the sources that do not match, in the order of the list
Keep(srcs, absPath, pathOrName) ==
  SelectSeq(srcs, LAMBDA s : ~Matches(s, absPath, pathOrName))

Outcome(n, op, arg, err) == [ n |-> n, op |-> op, arg |-> arg, err |-> err ]

\* lines 130-166; the time of the addition is the number of the operation
AddSource(path, name, wdFault, saveFault) ==
  LET abs  == Abs(path, wdFault)
      kind == StatKind(abs.path)
      err  == IF abs.err THEN "getwd"
              ELSE IF kind = "missing" THEN "path does not exist"
              ELSE IF kind # "dir" THEN "path is not a directory"
              ELSE IF Registered(sources, abs.path) THEN "already registered"
              ELSE IF saveFault THEN "save"
              ELSE ""
      nm   == IF name = <<>> THEN Base(abs.path) ELSE name
  IN /\ outcome.n < MaxOps
     /\ sources' = IF err \in { "", "save" }
                     THEN Append(sources, Source(abs.path, nm, outcome.n + 1))
                     ELSE sources
     /\ saved' = IF err = "" THEN sources' ELSE saved
     /\ outcome' = Outcome(outcome.n + 1, "add", path, err)
     /\ UNCHANGED <<resolverVars, scanVars, parseVars, freshVars, registry>>

\* lines 168-189; the error of filepath.Abs is dropped
RemoveSource(pathOrName, wdFault, saveFault) ==
  LET absPath == Abs(pathOrName, wdFault).path
      found   == \E k \in 1..Len(sources) : Matches(sources[k], absPath, pathOrName)
      err     == IF ~found THEN "not registered"
                 ELSE IF saveFault THEN "save"
                 ELSE ""
  IN /\ outcome.n < MaxOps
     /\ sources' = IF found THEN Keep(sources, absPath, pathOrName) ELSE sources
     /\ saved' = IF err = "" THEN sources' ELSE saved
     /\ outcome' = Outcome(outcome.n + 1, "remove", pathOrName, err)
     /\ UNCHANGED <<resolverVars, scanVars, parseVars, freshVars, registry>>

\* the paths and names handed to tctl add
AddPaths ==
  { <<"t">>, <<"l", "..", "t">>, <<"l">>, <<"/", "s">>, <<"f">>, <<"gone">> }

AddNames == { <<>>, <<"n">> }

\* what is handed to tctl remove
RemoveArgs ==
  { <<"t">>, <<"/", "w", "l">>, <<"n">>, <<"s">>, <<"gone">>, <<"q">> }

\* the sources a sources file can hold: two of them share a name, one names a
\* directory that is gone
LoadedSources ==
  { Source(<<"/", "w", "t">>, <<"t">>, 0),
    Source(<<"/", "w", "l">>, <<"t">>, 0),
    Source(<<"/", "w", "gone">>, <<"g">>, 0) }

DistinctPaths(srcs) ==
  \A j, k \in 1..Len(srcs) : j # k => srcs[j].Path # srcs[k].Path

SourceInit ==
  /\ sources \in { l \in BoundedSeq(LoadedSources, MaxSources) : DistinctPaths(l) }
  /\ saved = sources
  /\ outcome = NoOutcome
  /\ registry = NewRegistry
  /\ ResolverIdle
  /\ ScanIdle
  /\ ParseIdle
  /\ FreshIdle

SourceNext ==
  \/ \E path \in AddPaths, name \in AddNames, wdFault, saveFault \in BOOLEAN :
        AddSource(path, name, wdFault, saveFault)
  \/ \E pathOrName \in RemoveArgs, wdFault, saveFault \in BOOLEAN :
        RemoveSource(pathOrName, wdFault, saveFault)

\* tctl add and tctl remove on the source list of one Global
SourceSpec == SourceInit /\ [][SourceNext]_vars


-----------------------------------------------------------------------------
(* Reading the event log.                                                  *)

Idx == 1..Len(trace)

IsEv(k, kind) == trace[k].ev = kind

\* a production that ended without an error and with exit code 0
RunOk(e) == e.ok /\ e.detail = "none"

CallIds == 1..Len(calls)

TargetOf(c) == calls[c].target

ParentOf(c) == calls[c].par

RECURSIVE Ancestors(_)
Ancestors(c) ==
  IF ParentOf(c) = 0 THEN {} ELSE {ParentOf(c)} \cup Ancestors(ParentOf(c))

HasRet(c) == calls[c].ret # "open"

RetOf(c) == calls[c].ret = "true"

\* the calls made by call c, in the order they were made
Children(c) == { d \in CallIds : ParentOf(d) = c }

RunsFor(target) == { k \in Idx : IsEv(k, "run") /\ trace[k].target = target }

CallsOn(target) == { c \in CallIds : TargetOf(c) = target }

Done == stack = <<>> /\ callsLeft = 0

IsIntentName(g) == g \in DOMAIN intents

Provides(n, g) == \E k \in 1..Len(registry[n].Provides) : registry[n].Provides[k] = g

NoProvider(g) == \A n \in DOMAIN registry : ~Provides(n, g)

Elems(sq) == { sq[k] : k \in 1..Len(sq) }

\* the target of the outermost call
TopTarget == trace[1].target

\* the call chain of call c: c and the calls still waiting for it
Chain(c) == {c} \cup Ancestors(c)

\* the tools run so far, in order
RECURSIVE RunTools(_)
RunTools(n) ==
  IF n = 0 THEN <<>>
  ELSE IF IsEv(n, "run") THEN Append(RunTools(n - 1), trace[n].tool)
  ELSE RunTools(n - 1)

\* call c asked for dep and got success before position k of the log
EnsuredBy(c, dep, k) ==
  \E j \in 1..(k - 1) : /\ IsEv(j, "ret") /\ trace[j].ok
                         /\ trace[j].target = dep
                         /\ trace[j].id \in Children(c)

\* before position k, dep was found to have a tool without output path or
\* with an output that is not fresh
StaleOrOutputless(dep, k) ==
  \E j \in 1..(k - 1) :
     /\ IsEv(j, "find") /\ trace[j].ok /\ trace[j].target = dep
     /\ \/ registry[trace[j].tool].Output = ""
        \/ \E m \in 1..(k - 1) : IsEv(m, "check") /\ trace[m].id = trace[j].id
                                   /\ ~trace[m].ok

ProducedBefore(dep, k) ==
  \E j \in 1..(k - 1) : IsEv(j, "run") /\ trace[j].target = dep /\ RunOk(trace[j])

\* a.py: @tool a, @provides x, @requires y; b.py: @tool b, @provides y,
\* @output out.csv, @freshness daily; ensure("x")
ScenarioAB ==
  /\ registry["a"].Provides = <<"x">> /\ registry["a"].Requires = <<"y">>
  /\ registry["a"].Output = ""
  /\ registry["b"].Provides = <<"y">> /\ registry["b"].Requires = <<>>
  /\ registry["b"].Output = "out.csv" /\ registry["b"].Freshness = "daily"
  /\ ~IsIntentName("x") /\ ~IsIntentName("y")
  /\ trace # <<>> /\ TopTarget = "x"

ScenarioABResult ==
  ( /\ ScenarioAB /\ Done
    /\ \E k \in Idx : IsEv(k, "check") /\ trace[k].tool = "b" /\ trace[k].detail = "missing"
    /\ \A k \in Idx : IsEv(k, "run") => RunOk(trace[k]) )
  => success = <<TRUE>> /\ RunTools(Len(trace)) = <<"b", "a">>

-----------------------------------------------------------------------------
\* C1: with one visited-set shared by every ensureData call, outermost calls
\* issued one after the other included, no target name has its tool run more
\* than once.
C1_ProducedOncePerTarget ==
  \A g \in Targets : Cardinality(RunsFor(g)) <= 1

\* the same target asked for by two outermost calls, and another reached from
\* two different callers (a diamond), its tool run once
C1_Witness ==
  /\ Done
  /\ \E c, d \in CallIds : c # d /\ ParentOf(c) = 0 /\ ParentOf(d) = 0
                           /\ TargetOf(c) = TargetOf(d)
  /\ \E c, d \in CallIds : /\ TargetOf(c) = TargetOf(d)
                           /\ ParentOf(c) # 0 /\ ParentOf(d) # 0
                           /\ ParentOf(c) # ParentOf(d)
                           /\ TargetOf(ParentOf(c)) # TargetOf(ParentOf(d))
                           /\ Cardinality(RunsFor(TargetOf(c))) = 1

\* C2: ensureData on any registry and intent map, cyclic ones included, comes
\* back with an answer, and no target is expanded while it is already being
\* expanded or after it was expanded.
C2_NoRevisit ==
  /\ \A i, j \in 1..Len(stack) :
        i < j /\ stack[i].target = stack[j].target => stack[j].pc = "entry"
  /\ \A g \in Targets :
        Cardinality({ k \in Idx : IsEv(k, "find") /\ trace[k].target = g }) <= 1
  /\ Len(stack) <= Cardinality(Targets) + 1

C2_Terminates == []C2_NoRevisit /\ <>(Done /\ Len(success) = 1 /\ success[1] \in BOOLEAN)

\* a requires-cycle and a cycle through an intent's includes list both closed,
\* and the outermost call has returned
C2_Witness ==
  /\ Done
  /\ \E c \in CallIds : \E a \in Ancestors(c) :
        /\ TargetOf(a) = TargetOf(c)
        /\ \E m \in Ancestors(c) : a \in Ancestors(m) /\ IsIntentName(TargetOf(m))
  /\ \E c \in CallIds : \E a \in Ancestors(c) :
        /\ TargetOf(a) = TargetOf(c)
        /\ \A m \in Ancestors(c) \cup {c} :
             (m = a \/ a \in Ancestors(m)) => ~IsIntentName(TargetOf(m))

\* C3 as stated: when a tool is run, every entry of its requires list was
\* ensured with success by that call, and was produced before if its tool is
\* stale or has no output path; in the a/b scenario b is run once, then a.
C3_DepsProducedFirst ==
  /\ \A k \in Idx : IsEv(k, "run") =>
        \A dep \in Elems(registry[trace[k].tool].Requires) :
           /\ EnsuredBy(trace[k].id, dep, k)
           /\ StaleOrOutputless(dep, k) => ProducedBefore(dep, k)
  /\ ScenarioABResult

\* C3: as above, except that an entry which is the target of a call still
\* open on the call chain (a dependency cycle) counts as ensured without
\* having been produced.
C3_DepsEnsuredFirst ==
  /\ \A k \in Idx : IsEv(k, "run") =>
        \A dep \in Elems(registry[trace[k].tool].Requires) :
           LET onChain == \E m \in Chain(trace[k].id) : TargetOf(m) = dep
           IN /\ EnsuredBy(trace[k].id, dep, k)
              /\ StaleOrOutputless(dep, k) /\ ~onChain => ProducedBefore(dep, k)
              /\ onChain => ~ProducedBefore(dep, k)
  /\ ScenarioABResult

\* the a/b scenario ran to its end: b was run, then a, with success
C3_Witness ==
  /\ ScenarioAB /\ Done
  /\ \E k \in Idx : IsEv(k, "check") /\ trace[k].tool = "b" /\ trace[k].detail = "missing"
  /\ success = <<TRUE>>
  /\ RunTools(Len(trace)) = <<"b", "a">>

\* the entries of the requires lists of the tools that provide g
Requirements(g) ==
  IF IsIntentName(g) THEN {}
  ELSE UNION { Elems(registry[n].Requires) : n \in { m \in DOMAIN registry : Provides(m, g) } }

\* the names reachable from S through requires lists
RECURSIVE ReachFrom(_)
ReachFrom(S) ==
  LET T == S \cup UNION { Requirements(g) : g \in S }
  IN IF T = S THEN S ELSE ReachFrom(T)

CheckedFresh(g) == \E k \in Idx : IsEv(k, "check") /\ trace[k].target = g /\ trace[k].ok

Produced(g) == \E k \in Idx : IsEv(k, "run") /\ trace[k].target = g /\ RunOk(trace[k])

\* C4 as stated: after a successful ensure(target), every artifact reachable
\* from the target whose providing tool declares an output path had a fresh
\* output or was produced during the call.
C4_AllReachableFresh ==
  Done /\ success = <<TRUE>> =>
    \A g \in ReachFrom({TopTarget}) :
       (\E n \in DOMAIN registry : Provides(n, g) /\ registry[n].Output # "")
          => CheckedFresh(g) \/ Produced(g)

\* what the call leaves behind for a target it visited
Satisfied(g) ==
  IF IsIntentName(g) THEN Elems(intents[g]) \subseteq visited
  ELSE \E k \in Idx :
         /\ IsEv(k, "find") /\ trace[k].ok /\ trace[k].target = g
         /\ Provides(trace[k].tool, g)
         /\ IF registry[trace[k].tool].Output # "" /\ CheckedFresh(g)
              THEN ~Produced(g)
              ELSE /\ Elems(registry[trace[k].tool].Requires) \subseteq visited
                   /\ Produced(g)

\* C4: after a successful ensure(target), the target was visited and every
\* visited name is satisfied: an intent's members were visited; an artifact's
\* tool either had its output found fresh (its requires list is then not
\* looked at) or had every entry of its requires list visited and was run
\* with exit code 0.
C4_VisitedSatisfied ==
  Done /\ success = <<TRUE>> =>
    /\ TopTarget \in visited
    /\ \A g \in visited : Satisfied(g)

\* a successful call that ran a tool and skipped a fresh one whose
\* requirement was therefore never visited
C4_Witness ==
  /\ Done /\ success = <<TRUE>>
  /\ \E k \in Idx : IsEv(k, "run")
  /\ \E k \in Idx : /\ IsEv(k, "check") /\ trace[k].ok
                     /\ \E r \in Elems(registry[trace[k].tool].Requires) :
                          /\ r \notin visited
                          /\ ~NoProvider(r)

\* C5: when the target's tool declares an output path and the freshness check
\* reports it fresh, the call returns success at once and does not run the
\* tool.
C5_FreshSkipsProduction ==
  \A k \in Idx : IsEv(k, "check") /\ trace[k].ok =>
     /\ registry[trace[k].tool].Output # ""
     /\ k < Len(trace)
     /\ IsEv(k + 1, "ret") /\ trace[k + 1].id = trace[k].id /\ trace[k + 1].ok
     /\ ~\E j \in Idx : IsEv(j, "run") /\ trace[j].id = trace[k].id

\* a requirement was found fresh and left alone, and its caller was run
C5_Witness ==
  /\ Done
  /\ \E k \in Idx : /\ IsEv(k, "check") /\ trace[k].ok
                     /\ ParentOf(trace[k].id) # 0
                     /\ \E j \in Idx : IsEv(j, "run") /\ trace[j].id = ParentOf(trace[k].id)

\* C6: a call for a name that is no intent and that no tool provides returns
\* failure; it makes no call and runs nothing.
C6_UnknownFails ==
  \A c \in CallIds : ~IsIntentName(TargetOf(c)) /\ NoProvider(TargetOf(c)) =>
     /\ HasRet(c) => ~RetOf(c)
     /\ Done => HasRet(c)
     /\ Children(c) = {}
     /\ ~\E j \in Idx : (IsEv(j, "run") \/ IsEv(j, "check")) /\ trace[j].id = c

\* ensure of an unknown name as the outermost call: failure, nothing was run
C6_Witness ==
  /\ Done
  /\ NoProvider(TopTarget) /\ ~IsIntentName(TopTarget)
  /\ success = <<FALSE>>
  /\ ~\E j \in Idx : IsEv(j, "run")

\* C7: when a tool's run ends with a nonzero exit code or an error (no runner
\* for its language included), its call and every call on the chain above it
\* return failure, none of those runs its tool, and the outermost result is
\* failure.
C7_FailurePropagates ==
  \A k \in Idx : IsEv(k, "run") /\ ~RunOk(trace[k]) =>
     LET c == trace[k].id
     IN /\ \A m \in Chain(c) : HasRet(m) => ~RetOf(m)
        /\ ~\E j \in Idx : IsEv(j, "run") /\ trace[j].id \in Ancestors(c)
        /\ Done => /\ success = <<FALSE>>
                   /\ \A m \in Chain(c) : HasRet(m)

\* a tool without a runner failed two calls below the outermost one
C7_Witness ==
  /\ Done
  /\ \E k \in Idx : /\ IsEv(k, "run")
                     /\ trace[k].detail = "unsupported language"
                     /\ Cardinality(Ancestors(trace[k].id)) >= 2

\* the list call c walks: an intent's includes, or the requires of its tool
ListOf(c) ==
  IF IsIntentName(TargetOf(c)) THEN intents[TargetOf(c)]
  ELSE IF \E k \in Idx : IsEv(k, "find") /\ trace[k].id = c /\ trace[k].ok
    THEN registry[trace[CHOOSE k \in Idx : IsEv(k, "find") /\ trace[k].id = c].tool].Requires
    ELSE <<>>

\* the i-th call made by call c
ChildAt(c, i) ==
  CHOOSE d \in Children(c) : Cardinality({ e \in Children(c) : e < d }) = i - 1

\* the names g depends on, through includes and requires lists
DependsOnStep(g) ==
  IF IsIntentName(g) THEN Elems(intents[g]) ELSE Requirements(g)

RECURSIVE DependsOn(_)
DependsOn(S) ==
  LET T == S \cup UNION { DependsOnStep(g) : g \in S }
  IN IF T = S THEN S ELSE DependsOn(T)

\* C8 as stated: when a production fails, only what depends on the failed
\* target is given up: the members that the calls on the chain had still to
\* ensure and that do not depend on the failed target are ensured all the same.
C8_IndependentNotAborted ==
  \A k \in Idx : IsEv(k, "run") /\ ~RunOk(trace[k]) /\ Done =>
     \A p \in Ancestors(trace[k].id) :
        \A i \in (Cardinality(Children(p)) + 1)..Len(ListOf(p)) :
           trace[k].target \notin DependsOn({ListOf(p)[i]})
              => ListOf(p)[i] \in visited

\* C8: when a production fails, the calls on its chain return failure and
\* nothing else happens afterwards: the members those calls had still to
\* ensure are never started, whether or not they depend on the failed target;
\* the productions completed before stay as they are, their calls having
\* returned success.
C8_FailureStopsEverything ==
  \A k \in Idx : IsEv(k, "run") /\ ~RunOk(trace[k]) =>
     /\ \A j \in (k + 1)..Len(trace) :
           IsEv(j, "ret") /\ ~trace[j].ok /\ trace[j].id \in Chain(trace[k].id)
     /\ \A j \in 1..(k - 1) : IsEv(j, "run") =>
           /\ RunOk(trace[j])
           /\ HasRet(trace[j].id) /\ RetOf(trace[j].id)
           /\ trace[j].target \in visited
           /\ Cardinality(RunsFor(trace[j].target)) = 1
     /\ Done =>
           \A p \in Ancestors(trace[k].id) :
              \A i \in (Cardinality(Children(p)) + 1)..Len(ListOf(p)) :
                 ListOf(p)[i] \in visited =>
                    \E j \in 1..(k - 1) : IsEv(j, "call") /\ trace[j].target = ListOf(p)[i]

\* a member was produced, the next one failed, and a third one, which does
\* not depend on it and has a tool, was never visited
C8_Witness ==
  /\ Done
  /\ \E k \in Idx :
       /\ IsEv(k, "run") /\ ~RunOk(trace[k])
       /\ \E j \in 1..(k - 1) : IsEv(j, "run") /\ trace[j].id \notin Chain(trace[k].id)
       /\ \E p \in Ancestors(trace[k].id) :
            \E i \in (Cardinality(Children(p)) + 1)..Len(ListOf(p)) :
               /\ trace[k].target \notin DependsOn({ListOf(p)[i]})
               /\ ListOf(p)[i] \notin visited
               /\ ~NoProvider(ListOf(p)[i])

\* the call that expands the name g: the first one made for it
Expands(c) == \A d \in CallsOn(TargetOf(c)) : c <= d

\* C9: the call that expands an intent ensures the members of its includes
\* list one after the other in listed order, returns failure as soon as one
\* fails without starting a later one, returns success when all succeeded,
\* and itself looks up, checks and runs nothing.
C9_IntentInOrder ==
  \A c \in CallIds : IsIntentName(TargetOf(c)) /\ Expands(c) =>
     LET L == intents[TargetOf(c)]
         n == Cardinality(Children(c))
     IN /\ n <= Len(L)
        /\ \A i \in 1..n : TargetOf(ChildAt(c, i)) = L[i]
        /\ \A i \in 1..(n - 1) : HasRet(ChildAt(c, i)) /\ RetOf(ChildAt(c, i))
        /\ HasRet(c) =>
              IF RetOf(c)
                THEN n = Len(L) /\ \A i \in 1..n : RetOf(ChildAt(c, i))
                ELSE n >= 1 /\ HasRet(ChildAt(c, n)) /\ ~RetOf(ChildAt(c, n))
        /\ Done => HasRet(c)
        /\ ~\E j \in Idx : (IsEv(j, "find") \/ IsEv(j, "check") \/ IsEv(j, "run"))
                               /\ trace[j].id = c

\* an intent of three members: the first succeeded, the second failed, the
\* third was not started
C9_Witness ==
  /\ Done
  /\ \E c \in CallIds :
       /\ IsIntentName(TargetOf(c)) /\ Expands(c)
       /\ Len(intents[TargetOf(c)]) = 3
       /\ Cardinality(Children(c)) = 2
       /\ RetOf(ChildAt(c, 1)) /\ ~RetOf(ChildAt(c, 2))
       /\ ~RetOf(c)

\* C10: a call whose tool declares no output path makes no freshness check,
\* and runs the tool exactly when every entry of the requires list was
\* ensured with success.
C10_NoOutputAlwaysProduced ==
  \A k \in Idx : IsEv(k, "find") /\ trace[k].ok /\ registry[trace[k].tool].Output = "" =>
     LET c == trace[k].id
         t == registry[trace[k].tool]
         n == Cardinality(Children(c))
     IN /\ ~\E j \in Idx : IsEv(j, "check") /\ trace[j].id = c
        /\ n <= Len(t.Requires)
        /\ \A i \in 1..n : TargetOf(ChildAt(c, i)) = t.Requires[i]
        /\ HasRet(c) =>
              ( (\E j \in Idx : IsEv(j, "run") /\ trace[j].id = c /\ trace[j].tool = trace[k].tool)
                <=> (n = Len(t.Requires) /\ \A i \in 1..n : RetOf(ChildAt(c, i))) )
        /\ Done => HasRet(c)

\* a tool without output path was run for each of the two names it provides,
\* after its requires list succeeded
C10_Witness ==
  /\ Done
  /\ \E j, k \in Idx :
       /\ j < k /\ IsEv(j, "run") /\ IsEv(k, "run")
       /\ trace[j].tool = trace[k].tool /\ trace[j].target # trace[k].target
       /\ registry[trace[k].tool].Output = ""
       /\ registry[trace[k].tool].Requires # <<>>

-----------------------------------------------------------------------------
(* Reading the Registry against the calls of Add that filled it.           *)

\* a descriptor Add is meant to keep: not nil, with a name
Storable(t) == t # NilTool /\ t.Name # <<>>

StoredCalls == { k \in 1..Len(added) : Storable(added[k].t) }

AddedNames == { added[k].t.Name : k \in StoredCalls }

\* the descriptor of the last call of Add under the name, nil without one
LastAdded(name) ==
  LET ks == { k \in StoredCalls : added[k].t.Name = name }
  IN IF ks = {} THEN NilTool ELSE added[SetMax(ks)].t

\* the call of Add just made was given nil or a nameless descriptor
RejectedAdd ==
  /\ Len(added') = Len(added) + 1
  /\ ~Storable(added'[Len(added')].t)

\* the names of the registered tools whose provides list holds the name
Providers(data) == { n \in DOMAIN registry : Provides(n, data) }

ScanAdds == { k \in 1..Len(added) : added[k].by = "scan" }

\* C11: after any sequence of Registry.Add calls, made by a caller or by a
\* directory scan, the Registry holds no entry under the empty name and no
\* nil or nameless descriptor, and an Add of nil or of a nameless descriptor
\* leaves the Registry as it was.
C11_NoNamelessEntry ==
  \A n \in DOMAIN registry :
    n # <<>> /\ registry[n] # NilTool /\ registry[n].Name # <<>>

C11_NamelessNeverStored ==
  /\ []C11_NoNamelessEntry
  /\ [][RejectedAdd => registry' = registry]_vars

\* Add was handed a tool and then a nameless descriptor, or a tool and then
\* nil, and the Registry holds the tool alone
C11_Witness ==
  /\ Len(added) = 2
  /\ Storable(added[1].t)
  /\ added[2].t \in { NilTool, NewTool }
  /\ DOMAIN registry = { added[1].t.Name }

\* C12: insertion is last-write-wins by tool name: Get(n) answers the
\* descriptor of the last Add under n (nil when there was none), the Registry
\* has one entry per distinct non-empty name added, and a scan in which a
\* later root holds a tool named like one of an earlier root ends without
\* error, the later descriptor in place.
C12_LastWriteWins ==
  /\ \A n \in LookupKeys \cup AddedNames \cup DOMAIN registry :
       RegistryGet(registry, n) = LastAdded(n)
  /\ Cardinality(DOMAIN registry) = Cardinality(AddedNames)
  /\ lookup.op = "get" => lookup.res = LastAdded(lookup.key)
  /\ walk.pc = "done" => walk.err = "nil"

\* roots t and l both hold a tool named a; Get(a) after the scan answers the
\* descriptor of l/a.py
C12_Witness ==
  /\ walk.pc = "done"
  /\ roots = << <<DirT>>, <<DirL>> >>
  /\ \E j, k \in ScanAdds :
       /\ added[j].dir = 1 /\ added[k].dir = 2
       /\ added[j].t.Name = <<"a">> /\ added[k].t.Name = <<"a">>
  /\ lookup.op = "get"
  /\ lookup.key = <<"a">>
  /\ lookup.res.File = <<DirL, PyFile(<<"a">>)>>

\* C13: FindByProvides(a) answers a registered descriptor whose provides list
\* holds a whenever there is one (the only provider when there is just one),
\* and nil exactly when no registered tool provides a.
C13_FindByProvidesAnswersProvider ==
  lookup.op = "find" =>
    /\ (lookup.res = NilTool) <=> (Providers(lookup.key) = {})
    /\ Providers(lookup.key) # {} =>
         \E n \in Providers(lookup.key) : lookup.res = registry[n]

\* after the scan of root l, x is provided by the tools a and c, and
\* FindByProvides(x) answers c
C13_Witness ==
  /\ walk.pc = "done"
  /\ roots = << <<DirL>> >>
  /\ lookup.op = "find"
  /\ lookup.key = <<"x">>
  /\ Providers(<<"x">>) = { <<"a">>, <<"c">> }
  /\ lookup.res.Name = <<"c">>

-----------------------------------------------------------------------------
(* Properties of the tag parser, under ParseSpec.                           *)

\* the tag block of the file scanned
Block == SubSeq(source.lines, 2, Len(source.lines) - 1)

\* the line reads `@tool X`
IsToolLine(line) == HasPrefix(TrimSpace(line), TagTool)

\* the X of a line `@tool X`
ToolLineName(line) == TrimSpace(From(TrimSpace(line), Len(TagTool)))

\* the places of the block where a `@tool X` line stands
ToolLines == { k \in 1..Len(Block) : IsToolLine(Block[k]) }

\* the scan of the file has answered without a read fault
Parsed == scanned.done /\ scanned.err = "none"

\* C14 as stated: every `@tool X` line of the block names the descriptor
\* parsed, and a block without such a line parses to no tool.
C14_EveryToolLineNames ==
  Parsed =>
    /\ \A k \in ToolLines :
         scanned.t # NilTool /\ scanned.t.Name = ToolLineName(Block[k])
    /\ ToolLines = {} => scanned.t = NilTool

\* C14 amended: the descriptor parsed from a block with `@tool X` lines is
\* named by the last of them, wherever it stands (right after an interface
\* block included), and a block without such a line parses to no tool.
C14_LastToolLineNames ==
  Parsed =>
    /\ ToolLines # {} =>
         /\ scanned.t # NilTool
         /\ scanned.t.Name = ToolLineName(Block[SetMax(ToolLines)])
    /\ ToolLines = {} => scanned.t = NilTool

\* a `@tool` line right after an interface block has named the descriptor
C14_Witness ==
  /\ Parsed
  /\ Len(Block) = 3
  /\ Block[1] = TagInterface
  /\ ~HasPrefix(TrimSpace(Block[2]), <<"@">>)
  /\ Block[2] # <<>>
  /\ ToolLines = {3}
  /\ scanned.t # NilTool
  /\ scanned.t.Name = <<"b">>
  /\ DOMAIN scanned.t.Interface = { <<"-", "-", "o">> }

-----------------------------------------------------------------------------
(* Reading a scan against the disk.                                        *)

\* the name is one the scanner prunes
ExcludedName(name) == name \in skipDirs \/ HasSuffix(name, StrEggInfo)

IsPrefix(p, q) == Len(p) <= Len(q) /\ SubSeq(q, 1, Len(p)) = p

\* some directory above the path, at any depth, has an excluded name
BelowExcludedName(path) ==
  \E j \in 1..(Len(path) - 1) : ExcludedName(path[j])

\* some directory above the path, from the root of the walk down, has an
\* excluded name
BelowPrunedDir(root, path) ==
  \E j \in Len(root)..(Len(path) - 1) : ExcludedName(path[j])

\* the walk of the root comes to the file and hands it to the Python scanner:
\* every directory from the root down to it is listed, readable and not
\* pruned, and the file is not private and ends in .py
Eligible(root, path) ==
  /\ path \in DOMAIN Disk
  /\ Disk[path].kind = "file"
  /\ IsPrefix(root, path)
  /\ \A j \in Len(root)..(Len(path) - 1) :
       LET d == SubSeq(path, 1, j)
       IN /\ d \in DOMAIN Disk
          /\ Disk[d].kind = "dir"
          /\ Disk[d].fault = "none"
          /\ ~ExcludedName(path[j])
          /\ \E k \in 1..Len(Disk[d].names) : Disk[d].names[k] = path[j + 1]
  /\ ~IsPrivate(BaseName(path))
  /\ PathExt(path) = StrPy

\* the file, read without fault, declares a tool
DeclaresTool(path) ==
  Scan(path, SourceFile("none", Disk[path].file.lines)).t # NilTool

DeclaredName(path) ==
  Scan(path, SourceFile("none", Disk[path].file.lines)).t.Name

WasSeen(path, dir) ==
  \E k \in 1..Len(walk.seen) : walk.seen[k] = Seen(path, dir)

\* C15 as stated: no file below a directory with an excluded name, wherever
\* that directory stands in the file's path, is added by the scan or even
\* reported to it.
C15_NothingBelowExcludedName ==
  /\ \A k \in ScanAdds : ~BelowExcludedName(added[k].t.File)
  /\ \A k \in 1..Len(walk.seen) : ~BelowExcludedName(walk.seen[k].path)

\* C15: no file below a directory with an excluded name that the walk comes
\* to (the root itself or a directory under it) is added to the Registry, and
\* nothing below such a directory is reported to the scan; the names of the
\* directories above the root are not looked at.
C15_NothingBelowPrunedDir ==
  /\ \A k \in ScanAdds :
       ~BelowPrunedDir(roots[added[k].dir], added[k].t.File)
  /\ \A k \in 1..Len(walk.seen) :
       ~BelowPrunedDir(roots[walk.seen[k].dir], walk.seen[k].path)

\* the walk of root t has come to t/.git, t/node_modules and t/pkg.egg-info,
\* which hold valid tools, and has ended with only a and b registered
C15_Witness ==
  /\ walk.pc = "done"
  /\ roots = << <<DirT>> >>
  /\ WasSeen(<<DirT, DotGit>>, 1)
  /\ WasSeen(<<DirT, NodeModules>>, 1)
  /\ WasSeen(<<DirT, PkgEggInfo>>, 1)
  /\ DeclaresTool(<<DirT, PkgEggInfo, PyFile(<<"e">>)>>)
  /\ DeclaresTool(<<DirT, DotGit, PyFile(<<"g">>)>>)
  /\ DOMAIN registry \subseteq { <<"a">>, <<"b">>, <<"f">> }
  /\ <<"b">> \in DOMAIN registry

\* C16: ScanDirectories comes to its end without an error: every file the
\* walk of an existing root can come to has been handed to the scan, whatever
\* failed or held no tool before it, and every such file that declares a tool
\* and was read without fault has its tool's name in the Registry.
C16_ScanNeverAborts ==
  walk.pc = "done" =>
    /\ walk.err = "nil"
    /\ \A dir \in 1..Len(roots) : \A path \in DOMAIN Disk :
         Eligible(roots[dir], path) =>
           /\ WasSeen(path, dir)
           /\ (path \notin walk.failed /\ DeclaresTool(path)) =>
                /\ DeclaredName(path) \in DOMAIN registry
                /\ registry[DeclaredName(path)].Name = DeclaredName(path)

\* the first root does not exist; in the second, f.py could not be read and
\* m.py holds no tool, and the tools of a.py before them and of s/b.py after
\* them are registered
C16_Witness ==
  /\ walk.pc = "done"
  /\ roots = << << <<"g", "o", "n", "e">> >>, <<DirT>> >>
  /\ <<DirT, PyFile(<<"f">>)>> \in walk.failed
  /\ WasSeen(<<DirT, PyFile(<<"m">>)>>, 2)
  /\ ~DeclaresTool(<<DirT, PyFile(<<"m">>)>>)
  /\ DOMAIN registry = { <<"a">>, <<"b">> }
  /\ walk.err = "nil"

-----------------------------------------------------------------------------
(* Properties of the freshness check, under FreshSpec.                      *)

\* the thresholds the policy table is documented with, in hours
DocumentedHours == [ daily |-> 24, weekly |-> 168, monthly |-> 720 ]

\* the check has answered for a file that exists
CheckedFile == verdict.done /\ outFile.kind = "file"

\* the age is strictly less than n whole hours
YoungerThan(age, n) == age.h < n

C18_ManualNeverStale ==
  CheckedFile /\ policy = "manual" => verdict.fresh /\ verdict.msg.word = "fresh"

\* a file whose age is a hundred years of 365 days is found stale under manual
C18_Witness ==
  /\ CheckedFile
  /\ policy = "manual"
  /\ outFile.age = Dur(365 * 24 * 100, 0)
  /\ ~verdict.fresh
  /\ verdict.msg = [word |-> "stale", n |-> 36500, unit |-> "d"]

\* C19: for every answer of os.Stat, a policy name outside the table (the
\* empty string included) gets the answer and the message that manual gets.
C19_UnknownPolicyIsManual ==
  verdict.done /\ policy \notin {"daily", "weekly", "monthly", "manual"} =>
    /\ verdict.fresh = Check(outFile, "manual").fresh
    /\ verdict.msg = Check(outFile, "manual").msg

\* a file two days old is found fresh under the empty policy name
C19_Witness ==
  /\ CheckedFile
  /\ policy = ""
  /\ outFile.age = Dur(48, 0)
  /\ verdict.fresh
  /\ verdict.msg = [word |-> "fresh", n |-> 2, unit |-> "d"]

-----------------------------------------------------------------------------
(* The round trip of a descriptor through its tag block, under RoundSpec.   *)

ToSet(s) == { s[k] : k \in 1..Len(s) }

\* the name holds no white space and no comma
NoSpaceOrComma(n) == \A k \in 1..Len(n) : n[k] \notin Spaces \cup {","}

\* the precondition of C20 as stated
NamesAsStated(d) ==
  \A n \in ToSet(d.Provides) \cup ToSet(d.Requires) \cup ToSet(d.Keywords) :
    NoSpaceOrComma(n)

\* the texts are not empty and neither start nor end with white space
TextsTrimmed(d) ==
  \A x \in ToSet(d.Capabilities) \cup ToSet(d.Boundaries) \cup ToSet(d.Examples) :
    x # <<>> /\ TrimSpace(x) = x

\* the names are not empty
NamesNotEmpty(d) ==
  <<>> \notin ToSet(d.Provides) \cup ToSet(d.Requires) \cup ToSet(d.Keywords)

\* the block rendered from the descriptor has been scanned; it reproduces it
Reproduced ==
  /\ scanned.t # NilTool
  /\ ToSet(scanned.t.Provides) = ToSet(descriptor.Provides)
  /\ ToSet(scanned.t.Requires) = ToSet(descriptor.Requires)
  /\ ToSet(scanned.t.Keywords) = ToSet(descriptor.Keywords)
  /\ scanned.t.Examples = descriptor.Examples
  /\ scanned.t.Capabilities = descriptor.Capabilities
  /\ scanned.t.Boundaries = descriptor.Boundaries

\* C20 as stated: a descriptor whose artifact names and keywords hold no
\* white space or comma is reproduced by parsing the block rendered from it.
C20_RoundTripAsStated ==
  Parsed /\ descriptor # NilTool /\ NamesAsStated(descriptor) => Reproduced

\* C20 amended: a descriptor whose artifact names and keywords are not empty
\* and hold no white space or comma, and whose examples, capabilities and
\* boundaries are not empty and carry no white space at either end, gets back
\* from the parse of its rendered block the same sets of provides, requires
\* and keywords and the same lists of examples, capabilities and boundaries.
C20_RoundTrip ==
  /\ Parsed
  /\ descriptor # NilTool
  /\ NamesAsStated(descriptor)
  /\ NamesNotEmpty(descriptor)
  /\ TextsTrimmed(descriptor)
  => Reproduced

\* a descriptor with two keywords and two examples has come back from its
\* block with both lists as they were
C20_Witness ==
  /\ Parsed
  /\ descriptor # NilTool
  /\ descriptor.Keywords = << <<"x">>, <<"x">> >>
  /\ descriptor.Examples = << <<"g", "o", " ", "x">>, <<"g", "o", " ", "x">> >>
  /\ scanned.t # NilTool
  /\ scanned.t.Keywords = descriptor.Keywords
  /\ scanned.t.Examples = descriptor.Examples
  /\ Reproduced

-----------------------------------------------------------------------------
(* The resolver again, under Spec: cycles, tools with several names,        *)
(* failures and intents that shadow artifacts.                              *)

\* the call is on a target that an earlier call of the invocation was on
Revisit(k) ==
  /\ IsEv(k, "call")
  /\ \E j \in 1..(k - 1) : IsEv(j, "call") /\ trace[j].target = trace[k].target

\* a requires b's artifact and b requires a's; neither output can be fresh
CycleAB ==
  /\ registry["a"].Provides = <<"x">> /\ registry["a"].Requires = <<"y">>
  /\ registry["b"].Provides = <<"y">> /\ registry["b"].Requires = <<"x">>
  /\ registry["b"].Output = ""
  /\ ~IsIntentName("x") /\ ~IsIntentName("y")
  /\ trace # <<>> /\ TopTarget = "x"

\* the invocation is over, no output was found fresh and every run ended well
AllStaleAllRunsOk ==
  /\ Done
  /\ \A k \in Idx : IsEv(k, "check") => ~trace[k].ok
  /\ \A k \in Idx : IsEv(k, "run") => RunOk(trace[k])

\* C21: a call on an already visited target returns success at once, without
\* a lookup, a check or a run; a target is marked visited before the call
\* looks at anything or calls further; and in the cycle a requires b, b
\* requires a, with both stale and every run succeeding, ensure of a's
\* artifact returns success after b was run once and then a once.
C21_CycleBrokenByVisited ==
  /\ \A k \in Idx : Revisit(k) /\ k < Len(trace) =>
        /\ IsEv(k + 1, "ret")
        /\ trace[k + 1].id = trace[k].id
        /\ trace[k + 1].ok
  /\ \A i \in 1..Len(stack) : stack[i].pc # "entry" => stack[i].target \in visited
  /\ \A c \in CallIds : Children(c) # {} => TargetOf(c) \in visited
  /\ CycleAB /\ AllStaleAllRunsOk =>
        /\ success = <<TRUE>>
        /\ RunTools(Len(trace)) = <<"b", "a">>
        /\ Cardinality(CallsOn("x")) = 2
        /\ Cardinality(RunsFor("x")) = 1

\* the cycle was closed: a's stale output was seen, b's call came back on a's
\* artifact, which answered success, and then b and a were run
C21_Witness ==
  /\ CycleAB /\ AllStaleAllRunsOk
  /\ registry["a"].Output # ""
  /\ \E k \in Idx : IsEv(k, "check") /\ trace[k].tool = "a" /\ ~trace[k].ok
  /\ \E k \in Idx : Revisit(k) /\ trace[k].target = "x" /\ trace[k + 1].ok
  /\ success = <<TRUE>>
  /\ RunTools(Len(trace)) = <<"b", "a">>

-----------------------------------------------------------------------------
(* The tag parser line by line, under ParseSpec.                            *)

\* the k-th line of the block, trimmed
Trimmed(k) == TrimSpace(Block[k])

StartsTag(k) == HasPrefix(Trimmed(k), <<"@">>)

StartsFlag(k) == HasPrefix(Trimmed(k), <<"-", "-">>)

OpensInterface(k) == HasPrefix(Trimmed(k), TagInterface)

\* the k-th line stands in an interface block: an `@interface` line comes
\* before it with no line starting with `@` in between
InInterfaceBlock(k) ==
  \E j \in 1..(k - 1) :
     OpensInterface(j) /\ \A m \in (j + 1)..(k - 1) : ~StartsTag(m)

\* the argument lines of the interface blocks that parse to an argument
ArgLines ==
  { k \in 1..Len(Block) :
      InInterfaceBlock(k) /\ StartsFlag(k) /\ parseInterfaceLine(Trimmed(k)) # NilArg }

\* the lines of an interface block that are neither arguments nor tags
SkippedLines ==
  { k \in 1..Len(Block) : InInterfaceBlock(k) /\ ~StartsFlag(k) /\ ~StartsTag(k) }

\* the block without the lines of the set
Without(lines, drop) ==
  LET keep == { k \in 1..Len(lines) : k \notin drop }
      nth(i) == CHOOSE k \in keep : Cardinality({ m \in keep : m < k }) = i - 1
  IN [ i \in 1..Cardinality(keep) |-> lines[nth(i)] ]

\* the names the block's `@provides` lines list, the lines in an interface
\* block that do not start with `@` left out
ProvidesLines ==
  { k \in 1..Len(Block) : HasPrefix(Trimmed(k), TagProvides) }

\* C22: in a block that parses to a tool, the interface mapping holds exactly
\* the arguments of the `--` lines that stand in an interface block, each as
\* parseInterfaceLine reads its last line; the other lines of an interface
\* block that do not start with `@` change nothing, the descriptor being the
\* one parsed from the block without them; a line starting with `@` after
\* an interface block is read as the tag it is; and a `--` line outside an
\* interface block adds no entry.
C22_InterfaceBlock ==
  Parsed /\ scanned.t # NilTool =>
    /\ DOMAIN scanned.t.Interface =
         { parseInterfaceLine(Trimmed(k)).Name : k \in ArgLines }
    /\ \A k \in ArgLines :
         (\A m \in ArgLines : m > k =>
             parseInterfaceLine(Trimmed(m)).Name # parseInterfaceLine(Trimmed(k)).Name)
         => scanned.t.Interface[parseInterfaceLine(Trimmed(k)).Name]
              = parseInterfaceLine(Trimmed(k))
    /\ scanned.t = Scan(ScanPath, DocFile(Without(Block, SkippedLines))).t
    /\ \A k \in ProvidesLines :
         \A n \in ToSet(Fields(From(Trimmed(k), Len(TagProvides)))) :
            n \in ToSet(scanned.t.Provides)
    /\ (ToolLines # {} => scanned.t.Name = ToolLineName(Block[SetMax(ToolLines)]))

\* an interface block with an argument line and a text line, closed by the
\* `@tool` line that names the descriptor, has been parsed
C22_Witness ==
  /\ Parsed
  /\ scanned.t # NilTool
  /\ Len(Block) = 4
  /\ OpensInterface(1)
  /\ ArgLines = {2}
  /\ SkippedLines = {3}
  /\ Trimmed(3) # <<>>
  /\ StartsTag(4)
  /\ scanned.t.Name = <<"t">>
  /\ DOMAIN scanned.t.Interface = { <<"-", "-", "o">> }
  /\ scanned.t.Description = <<>>

\* the lines that set the tool name or add to the provides list
NamingLines == ToolLines \cup ProvidesLines

\* the candidate description lines: not empty, not starting with `@`, outside
\* the interface blocks, with no `@tool` or `@provides` line before them
Candidates ==
  { k \in 1..Len(Block) :
      /\ Trimmed(k) # <<>>
      /\ ~StartsTag(k)
      /\ ~InInterfaceBlock(k)
      /\ \A j \in NamingLines : j > k }

\* the i-th candidate, in the order of the lines
Candidate(i) ==
  Trimmed(CHOOSE k \in Candidates : Cardinality({ m \in Candidates : m < k }) = i - 1)

-----------------------------------------------------------------------------
(* The docstring extraction, under ExtractSpec.                             *)

FileLine(k) == TrimSpace(source.lines[k])

\* the line is blank or starts with `#`
PassedOver(k) == FileLine(k) = <<>> \/ HasPrefix(FileLine(k), <<"#">>)

\* the line starts with a triple-quote delimiter
OpensDocstring(k) == HasPrefix(FileLine(k), Quote3) \/ HasPrefix(FileLine(k), Apos3)

\* the first line of the file that is neither blank nor a `#` line
FirstLine == SetMin({ k \in 1..Len(source.lines) : ~PassedOver(k) })

JustShortOfHour(age) ==
  age.h >= 4096 /\ age.s = 3599 /\ 1000000000 - Nanos(age) < 1000

\* the verdict in a word
VerdictWord == IF verdict.fresh THEN "fresh" ELSE "stale"

\* C25 as stated: the message of an existing file is the verdict word with
\* the age in whole minutes under one hour, in whole hours from one hour to
\* under 24 hours, and in whole days, the floor of the whole hours by 24,
\* from there on.
C25_AgeInWholeUnits ==
  CheckedFile =>
    LET age == outFile.age
    IN verdict.msg =
         IF age.h = 0 THEN [word |-> VerdictWord, n |-> age.s \div 60, unit |-> "m"]
         ELSE IF age.h < 24 THEN [word |-> VerdictWord, n |-> age.h, unit |-> "h"]
         ELSE [word |-> VerdictWord, n |-> age.h \div 24, unit |-> "d"]

\* what holds of the message: as stated, except that for an age of 4096
\* hours or more that is less than a microsecond short of a whole hour the
\* days told are the floor by 24 of the whole hours or of the whole hours
\* plus one
MessageUpToRounding ==
  CheckedFile =>
    LET age == outFile.age
    IN /\ verdict.msg.word = VerdictWord
       /\ age.h = 0 =>
            verdict.msg.n = age.s \div 60 /\ verdict.msg.unit = "m"
       /\ age.h >= 1 /\ age.h < 24 =>
            verdict.msg.n = age.h /\ verdict.msg.unit = "h"
       /\ age.h >= 24 =>
            /\ verdict.msg.unit = "d"
            /\ IF JustShortOfHour(age)
                 THEN verdict.msg.n \in { age.h \div 24, (age.h + 1) \div 24 }
                 ELSE verdict.msg.n = age.h \div 24

\* a file one nanosecond short of 200 days old is told as 200 days old
C25_Witness ==
  /\ CheckedFile
  /\ outFile.age = DurNs(4799, 3599, 999999999)
  /\ policy = "daily"
  /\ verdict.msg = [word |-> "stale", n |-> 200, unit |-> "d"]

\* the places of the log where the tool was run
RunsOf(n) == { k \in Idx : IsEv(k, "run") /\ trace[k].tool = n }

\* the names the tool provides that a call was made on
NamesReached(n) == { g \in Elems(registry[n].Provides) : CallsOn(g) # {} }

\* C26 as stated: within one invocation no tool is run more than once, a
\* tool that provides several names reached as targets included.
C26_ToolRunOnce ==
  \A n \in DOMAIN registry : Cardinality(RunsOf(n)) <= 1

\* C26 amended: within one invocation a tool is run at most once for each
\* target name, so at most as often as it provides names that are reached as
\* targets; a tool that provides several names can be run once for each.
C26_ToolRunOncePerName ==
  \A n \in DOMAIN registry :
     /\ \A j, k \in RunsOf(n) : j # k => trace[j].target # trace[k].target
     /\ \A k \in RunsOf(n) : trace[k].target \in NamesReached(n)
     /\ Cardinality(RunsOf(n)) <= Cardinality(NamesReached(n))

\* the invocation came back with success after the tool that provides x and y
\* was run with exit code 0 for x and again for y
C26_Witness ==
  /\ Done
  /\ success = <<TRUE>>
  /\ Elems(registry["a"].Provides) = {"x", "y"}
  /\ Cardinality(RunsOf("a")) = 2
  /\ \A k \in RunsOf("a") : RunOk(trace[k])
  /\ { trace[k].target : k \in RunsOf("a") } = {"x", "y"}

\* C27: once a call of the invocation has returned failure, the log goes on
\* with nothing but the failing returns of the calls that wait for it: no
\* call, lookup, freshness check or run follows; the invocation answers
\* failure; and no call on a target comes back with success once a call on that
\* target has come back with failure.
C27_NothingAfterFailure ==
  /\ \A k \in Idx : IsEv(k, "ret") /\ ~trace[k].ok =>
        \A j \in (k + 1)..Len(trace) :
           /\ IsEv(j, "ret") /\ ~trace[j].ok
           /\ trace[j].id \in Ancestors(trace[k].id)
  /\ (\E c \in CallIds : HasRet(c) /\ ~RetOf(c)) /\ Done => success = <<FALSE>>
  /\ \A k, j \in Idx :
        /\ IsEv(k, "ret") /\ ~trace[k].ok
        /\ IsEv(j, "ret") /\ k < j
        /\ trace[j].target = trace[k].target
        => ~trace[j].ok

\* a target failed after another had been produced, the invocation answered
\* failure, and the failed target, still marked visited, stood later in the
\* list of a waiting call, which never came to it
C27_Witness ==
  /\ Done
  /\ success = <<FALSE>>
  /\ \E k \in Idx : IsEv(k, "run") /\ RunOk(trace[k])
  /\ \E c \in CallIds :
       /\ HasRet(c) /\ ~RetOf(c)
       /\ TargetOf(c) \in visited
       /\ Cardinality(CallsOn(TargetOf(c))) = 1
       /\ \E p \in Ancestors(c) :
            \E i \in (Cardinality(Children(p)) + 1)..Len(ListOf(p)) :
               ListOf(p)[i] = TargetOf(c)

\* a name that is an intent of the configuration and an artifact of a tool
Shadowed(g) == IsIntentName(g) /\ ~NoProvider(g)

\* every member of the list is the target of a call made by c that returned
\* success
MembersOk(c, list) ==
  \A i \in 1..Len(list) :
     \E d \in Children(c) : TargetOf(d) = list[i] /\ HasRet(d) /\ RetOf(d)

\* C28: a call on a name that is both an intent and an artifact of a
\* registered tool logs no lookup, freshness check or run, neither under the
\* call nor under the name; the call that expands the intent makes calls on
\* members of the intent only and returns success exactly when every member
\* returned success.
C28_IntentShadowsTool ==
  \A c \in CallIds : Shadowed(TargetOf(c)) =>
     /\ \A k \in Idx :
           trace[k].id = c \/ trace[k].target = TargetOf(c)
              => IsEv(k, "call") \/ IsEv(k, "ret")
     /\ \A d \in Children(c) : TargetOf(d) \in Elems(intents[TargetOf(c)])
     /\ HasRet(c) /\ Expands(c) => (RetOf(c) <=> MembersOk(c, intents[TargetOf(c)]))

\* the outermost target x is an intent and an artifact of tool a; its member
\* z was produced, x returned success and tool a was never run
C28_Witness ==
  /\ Done
  /\ success = <<TRUE>>
  /\ TopTarget = "x"
  /\ Shadowed("x")
  /\ Provides("a", "x")
  /\ RunsOf("a") = {}
  /\ \E k \in Idx : IsEv(k, "run") /\ trace[k].target = "z" /\ RunOk(trace[k])

\* the root's own name, the last element of its path, is one the scanner
\* prunes
ExcludedRoot(r) == ExcludedName(BaseName(r))

\* the tools the walk of the k-th root has added
AddedBy(k) == { j \in ScanAdds : added[j].dir = k }

\* C29: the walk of a registered root whose base name is in the exclusion set
\* or ends in .egg-info reports the root and nothing below it, and adds no
\* tool to the Registry, whatever the root holds.
C29_ExcludedRootAddsNothing ==
  \A k \in 1..Len(roots) : ExcludedRoot(roots[k]) =>
     /\ AddedBy(k) = {}
     /\ \A j \in 1..Len(walk.seen) :
           walk.seen[j].dir = k => walk.seen[j].path = roots[k]

\* the roots build and build/t have been walked: build holds the tool file
\* build/t/d.py and has added nothing, while the walk of build/t has added d
C29_Witness ==
  /\ walk.pc = "done"
  /\ roots = << <<Build>>, <<Build, DirT>> >>
  /\ DeclaresTool(<<Build, DirT, PyFile(<<"d">>)>>)
  /\ WasSeen(<<Build>>, 1)
  /\ AddedBy(1) = {}
  /\ AddedBy(2) # {}
  /\ DOMAIN registry = { <<"d">> }

\* the absolute path the argument of the operation names from the working
\* directory
TruePath(arg) == Abs(arg, FALSE).path

\* the list holds a source with the path
HasPath(srcs, path) == path \in { srcs[k].Path : k \in 1..Len(srcs) }

\* an operation has just been made
Stepped == outcome'.n = outcome.n + 1

\* the place of the path in the list
PlaceOf(srcs, path) == CHOOSE k \in 1..Len(srcs) : srcs[k].Path = path

\* the sources of the new list that were in the old one stand in the new list
\* as they stood in the old one, unchanged and in the same order, and a
\* source that was not in the old list stands behind all of them
KeepsOrder(old, new) ==
  /\ \A k \in 1..Len(new) :
        HasPath(old, new[k].Path) => new[k] = old[PlaceOf(old, new[k].Path)]
  /\ \A j, k \in 1..Len(new) : j < k =>
        IF HasPath(old, new[k].Path)
          THEN /\ HasPath(old, new[j].Path)
               /\ PlaceOf(old, new[j].Path) < PlaceOf(old, new[k].Path)
          ELSE TRUE

\* the operation of the step is an AddSource of a path the list holds
AddOfRegistered ==
  Stepped /\ outcome'.op = "add" /\ HasPath(sources, TruePath(outcome'.arg))

\* the operation of the step is a RemoveSource whose argument is neither the
\* path nor the name of a source of the list
RemoveOfNone ==
  /\ Stepped /\ outcome'.op = "remove"
  /\ \A k \in 1..Len(sources) :
        /\ sources[k].Path # TruePath(outcome'.arg)
        /\ sources[k].Name # outcome'.arg

\* C30: no two sources of the list have the same path, in memory and in the
\* sources file; an AddSource of a registered path and a RemoveSource that
\* matches no source end with an error and leave the list and the file as
\* they were; and every operation keeps the sources that survive it in the
\* order they were registered in.
C30_SourceList ==
  /\ [](DistinctPaths(sources) /\ DistinctPaths(saved))
  /\ [][AddOfRegistered \/ RemoveOfNone =>
           outcome'.err # "" /\ sources' = sources /\ saved' = saved]_vars
  /\ [][KeepsOrder(sources, sources')]_vars

\* the list was loaded with l, the directory t was added to it by the first
\* operation, and the third operation, an AddSource of l/../t, which names
\* the same directory, was refused and left the list and the file as they
\* were, l before t
C30_Witness ==
  /\ outcome = Outcome(3, "add", <<"l", "..", "t">>, "already registered")
  /\ Len(sources) = 2
  /\ sources[1] = Source(<<"/", "w", "l">>, <<"t">>, 0)
  /\ sources[2] = Source(<<"/", "w", "t">>, <<"n">>, 1)
  /\ saved = sources

====
